---- MODULE Spec2Model ----
(***************************************************************************)
(* Model of store-scraper-mcp: the MCP tool handlers of src/server.js, the *)
(* retrying HTTP client of src/httpClient.js and the App Store / Google    *)
(* Play parsers under src/parsers.                                         *)
(*                                                                         *)
(* Spec      one tool call at a time: dispatch, argument validation, URL   *)
(*           building, fetchWithRetry (attempts, abort timer, backoff      *)
(*           sleep), body read, parser, handler result.                    *)
(* SpecFair  Spec plus the fairness of the event loop: a pending attempt   *)
(*           settles, a sleep timer fires, a body read completes.          *)
(***************************************************************************)
EXTENDS Integers, Sequences, FiniteSets, TLC

(***************************************************************************)
(* httpClient.js                                                           *)
(***************************************************************************)
DEFAULT_TIMEOUT == 30000
MAX_RETRIES == 3
RETRY_DELAY == 1000

\* How far below zero the retries parameter is tracked.  Every branch of
\* fetchWithRetry tests retries only as retries > 0, so below zero its exact
\* value changes no decision; the model keeps it (and the attempt counter
\* and delay derived from it) at the floor once it gets there.
MaxOverrun == 2

RetriesFloor == 0 - MaxOverrun

AttemptsCap == MAX_RETRIES + 1 + MaxOverrun + 1

\* Outcomes of one `await fetch(url, fetchOptions)`.
\*   ok        a response with response.ok (status 200..299)
\*   http5xx   a response with status >= 500
\*   http429   a response with status 429
\*   httpOther any other response with !response.ok
\*   neterr    fetch rejected with an error other than the abort
\*   abort     the abort timer fired: fetch rejected with an AbortError
\* hasFetch: the message of the error this attempt ends in contains 'fetch'
\* (for a response: its statusText does; for neterr: the error's message).
HttpErrorKinds == {"http5xx", "http429", "httpOther"}

Outcomes ==
    {[kind |-> "ok", hasFetch |-> FALSE], [kind |-> "abort", hasFetch |-> FALSE]}
    \cup [kind : HttpErrorKinds \cup {"neterr"}, hasFetch : BOOLEAN]

NoOutcome == [kind |-> "none", hasFetch |-> FALSE]

\* A catch block that retries every error while retries are left.
CatchDecision_RetryAnyError(name, hasFetch, r) ==
    IF name = "AbortError" \/ r > 0 THEN "retry" ELSE "throw"

\* catch (error) { ... } of fetchWithRetry: retry or rethrow.
CatchDecision(name, hasFetch, r) ==
    IF name = "AbortError" \/ (hasFetch /\ r > 0) THEN "retry" ELSE "throw"

\* What fetchWithRetry does once `await fetch` has settled with outcome o and
\* `retries` is r: "return" the response, "retry" (sleep, then recurse) or
\* "throw".  The `throw new Error(HTTP ...)` of line 55 is inside the try
\* block, so it passes through the catch block as well.
RetryableStatus(o) == o.kind \in {"http5xx", "http429"}

OnSettle(o, r) ==
    IF o.kind = "ok" THEN "return"
    ELSE IF o.kind \in HttpErrorKinds
         THEN IF RetryableStatus(o) /\ r > 0
              THEN "retry"
              ELSE CatchDecision("Error", o.hasFetch, r)
         ELSE CatchDecision(IF o.kind = "abort" THEN "AbortError" ELSE "TypeError",
                            o.hasFetch, r)

\* sleep(RETRY_DELAY * (MAX_RETRIES - retries + 1))
BackoffDelay(r) == RETRY_DELAY * (MAX_RETRIES - r + 1)

\* retries - 1 of the recursive call, kept at the floor.
NextRetries(r) == IF r - 1 < RetriesFloor THEN RetriesFloor ELSE r - 1

(***************************************************************************)
(* server.js: tools and handlers                                           *)
(***************************************************************************)
AppStoreTools ==
    {"app", "search", "list", "reviews", "ratings", "developer", "similar",
     "privacy", "versionHistory", "suggest"}

GooglePlayTools ==
    {"gp_app", "gp_search", "gp_list", "gp_reviews", "gp_developer", "gp_similar",
     "gp_permissions", "gp_datasafety", "gp_categories", "gp_suggest"}

\* The names of the tools array the ListToolsRequestSchema handler returns.
ListedTools ==
    {"app", "search", "list", "reviews", "ratings", "developer", "similar",
     "privacy", "versionHistory", "suggest",
     "gp_app", "gp_search", "gp_list", "gp_reviews", "gp_developer", "gp_similar",
     "gp_permissions", "gp_datasafety", "gp_categories", "gp_suggest"}

\* A switch with no case for gp_suggest.
DispatchedTools_NoSuggest == (AppStoreTools \cup GooglePlayTools) \ {"gp_suggest"}

\* The case labels of the CallToolRequestSchema handler's switch.
DispatchedTools == AppStoreTools \cup GooglePlayTools

\* A request may carry any name; "bogus" stands for every name without a case.
RequestNames == DispatchedTools \cup {"bogus"}

\* Arguments of a call: NoArgs is `arguments` absent (undefined); otherwise the
\* set of the argument names that are present and truthy.  "bad" stands for an
\* optional argument whose value makes the URL builder throw (limit: null,
\* page: null, num: null, a term with a lone surrogate).
NoArgs == {"<undefined>"}

ArgNames == {"id", "appId", "term", "devId", "bad"}

ArgValues == {NoArgs} \cup SUBSET ArgNames

\* The handlers' checks, handleGPReviews having none.
RequiredMissing_NoReviewsCheck(t, a) ==
    CASE t \in {"app", "reviews", "ratings", "similar"} ->
            ("id" \notin a) /\ ("appId" \notin a)
      [] t \in {"search", "suggest", "gp_search", "gp_suggest"} -> "term" \notin a
      [] t \in {"developer", "gp_developer"} -> "devId" \notin a
      [] t \in {"privacy", "versionHistory"} -> "id" \notin a
      [] t \in {"gp_app", "gp_similar", "gp_permissions", "gp_datasafety"} ->
            "appId" \notin a
      [] OTHER -> FALSE

\* The handler's own check, first statement after the destructuring.
RequiredMissing(t, a) ==
    CASE t \in {"app", "reviews", "ratings", "similar"} ->
            ("id" \notin a) /\ ("appId" \notin a)
      [] t \in {"search", "suggest", "gp_search", "gp_suggest"} -> "term" \notin a
      [] t \in {"developer", "gp_developer"} -> "devId" \notin a
      [] t \in {"privacy", "versionHistory"} -> "id" \notin a
      [] t \in {"gp_app", "gp_reviews", "gp_similar", "gp_permissions",
                "gp_datasafety"} -> "appId" \notin a
      [] OTHER -> FALSE

\* handleGPCategories never reads args; every other handler destructures it.
DestructuresArgs(t) == t # "gp_categories"

\* URL builders that call a method of an optional argument or encode the term.
BuilderThrows(t, a) ==
    /\ t \in {"list", "gp_list", "gp_reviews", "suggest", "gp_suggest"}
    /\ "bad" \in a

\* fetchJSON or fetchText.
UsesFetchJSON(t) ==
    t \in (AppStoreTools \ {"similar"}) \cup {"gp_suggest"}

\* Handlers that answer a null parser result with a not-found body.
SingleEntity(t) == t \in {"app", "ratings", "privacy", "gp_app", "gp_datasafety"}

\* Handlers whose statements after the fetch can throw (a parser without a
\* try block, or a property read of the fetched value in the handler).
ParseStepMayThrow(t) == t \in (AppStoreTools \ {"similar"})

ParseOutcomes(t) ==
    {"value", "empty"} \cup (IF ParseStepMayThrow(t) THEN {"throw"} ELSE {})

\* Steps of a handler body, and whether the handler's try block covers them.
HandlerSteps == {"args", "validate", "build", "fetch", "body", "json", "parse"}

\* A handler that destructures args before its try block.
TryCovers_ArgsOutside(t, step) == step # "args"

TryCovers(t, step) == TRUE

NoResult == [state |-> "none", isError |-> FALSE, items |-> 0, text |-> "none",
             from |-> "none"]

\* return { content: [{type: 'text', text: JSON.stringify(...)}] }
ContentResult(text) ==
    [state |-> "resolved", isError |-> FALSE, items |-> 1, text |-> text,
     from |-> "none"]

\* An exception raised in `step` of handler t: the catch block's result, or a
\* rejected promise where no try block covers the step.
Raise(t, step) ==
    IF TryCovers(t, step)
    THEN [state |-> "resolved", isError |-> TRUE, items |-> 1, text |-> "error",
          from |-> step]
    ELSE [state |-> "rejected", isError |-> FALSE, items |-> 0, text |-> "none",
          from |-> step]

\* A handler that swallows the fetch error and parses an undefined document.
FetchFailed_ParsesAnyway(t, step) ==
    [parsed |-> 1,
     result |-> IF SingleEntity(t) THEN ContentResult("notfound")
                ELSE ContentResult("data")]

\* `await fetchJSON(url)` / `await fetchText(url)` rejected in `step`: control
\* leaves the try block, so the parser call after the await is skipped.
FetchFailed(t, step) == [parsed |-> 0, result |-> Raise(t, step)]

\* The awaited document reached the parser, which ended in p.
Parsed(t, p) ==
    [parsed |-> 1,
     result |-> IF p = "throw" THEN Raise(t, "parse")
                ELSE IF p = "empty" /\ SingleEntity(t)
                     THEN ContentResult("notfound")
                     ELSE ContentResult("data")]

\* default: throw new Error(`Unknown tool: ${name}`) in the request handler.
UnknownTool ==
    [state |-> "rejected", isError |-> FALSE, items |-> 0, text |-> "none",
     from |-> "dispatch"]


(***************************************************************************)
(* JavaScript values, as the parsers see them                              *)
(***************************************************************************)
UNDEF == [t |-> "undefined"]

NULL == [t |-> "null"]

NAN == [t |-> "nan"]

Num(n) == [t |-> "number", n |-> n]

Str(s) == [t |-> "string", s |-> s]

Bool(b) == [t |-> "boolean", b |-> b]

Arr(a) == [t |-> "array", a |-> a]

Obj(o) == [t |-> "object", o |-> o]

\* The outcome of a call that threw instead of returning.
THROWN == [t |-> "throw"]

EmptyArr == Arr(<<>>)

EmptyObj == Obj(<<>>)

Nullish(v) == v.t \in {"undefined", "null"}

\* ToBoolean: what `!v`, `v || d` and `if (v)` test.
Truthy(v) ==
    CASE v.t \in {"undefined", "null", "nan"} -> FALSE
      [] v.t = "number" -> v.n # 0
      [] v.t = "string" -> v.s # ""
      [] v.t = "boolean" -> v.b
      [] OTHER -> TRUE

\* a || b
Or(a, b) == IF Truthy(a) THEN a ELSE b

\* v.k for a v that is neither null nor undefined (reading a property of
\* null or undefined throws a TypeError: the callers test Nullish first).
Get(v, k) ==
    CASE v.t = "object" -> IF k \in DOMAIN v.o THEN v.o[k] ELSE UNDEF
      [] v.t = "array" -> IF k = "length" THEN Num(Len(v.a)) ELSE UNDEF
      [] v.t = "string" -> IF k = "length" THEN Num(Len(v.s)) ELSE UNDEF
      [] OTHER -> UNDEF

\* v?.k
OptGet(v, k) == IF Nullish(v) THEN UNDEF ELSE Get(v, k)

\* v[0] for a v that is neither null nor undefined (the strings of the
\* model that are indexed are "" and "ab").
First(v) ==
    CASE v.t = "array" -> IF Len(v.a) > 0 THEN v.a[1] ELSE UNDEF
      [] v.t = "string" -> IF v.s = "" THEN UNDEF
                           ELSE IF v.s = "ab" THEN Str("a") ELSE Str(v.s)
      [] OTHER -> UNDEF

\* v?.[0]
OptFirst(v) == IF Nullish(v) THEN UNDEF ELSE First(v)

\* v?.k1?.k2 ... along ks
RECURSIVE OptPath(_, _)
OptPath(v, ks) == IF ks = <<>> THEN v ELSE OptPath(OptGet(v, Head(ks)), Tail(ks))


\* Array.isArray(v)
IsArray(v) == v.t = "array"

\* The first truthy app[k] for k in ks, else def: app.k1 || app.k2 || def.
RECURSIVE OrChain(_, _, _)
OrChain(app, ks, def) ==
    IF ks = <<>> THEN def
    ELSE IF Truthy(Get(app, Head(ks))) THEN Get(app, Head(ks))
         ELSE OrChain(app, Tail(ks), def)

(***************************************************************************)
(* parsers/appStore/app.js: parseApp, parseApps; search.js: parseSearch    *)
(***************************************************************************)
\* The fields of the record parseApp returns (nested objects flattened:
\* developer.id is "developer.id"), each with the lookup fields it is read
\* from, in `||` order, and its default.  price and free are set apart.
AppSchema ==
    {[out |-> "id", src |-> <<"trackId">>, def |-> NULL],
     [out |-> "appId", src |-> <<"bundleId">>, def |-> NULL],
     [out |-> "title", src |-> <<"trackName">>, def |-> NULL],
     [out |-> "url", src |-> <<"trackViewUrl">>, def |-> NULL],
     [out |-> "description", src |-> <<"description">>, def |-> NULL],
     [out |-> "releaseNotes", src |-> <<"releaseNotes">>, def |-> NULL],
     [out |-> "version", src |-> <<"version">>, def |-> NULL],
     [out |-> "releaseDate", src |-> <<"releaseDate">>, def |-> NULL],
     [out |-> "currentVersionReleaseDate", src |-> <<"currentVersionReleaseDate">>,
      def |-> NULL],
     [out |-> "price", src |-> <<"price">>, def |-> Num(0)],
     [out |-> "currency", src |-> <<"currency">>, def |-> NULL],
     [out |-> "developer.id", src |-> <<"artistId">>, def |-> NULL],
     [out |-> "developer.name", src |-> <<"artistName">>, def |-> NULL],
     [out |-> "developer.url", src |-> <<"artistViewUrl">>, def |-> NULL],
     [out |-> "category.id", src |-> <<"primaryGenreId">>, def |-> NULL],
     [out |-> "category.name", src |-> <<"primaryGenreName">>, def |-> NULL],
     [out |-> "category.genres", src |-> <<"genres">>, def |-> EmptyArr],
     [out |-> "rating.average", src |-> <<"averageUserRating">>, def |-> NULL],
     [out |-> "rating.count", src |-> <<"userRatingCount">>, def |-> Num(0)],
     [out |-> "contentAdvisoryRating", src |-> <<"contentAdvisoryRating">>,
      def |-> NULL],
     [out |-> "screenshotUrls", src |-> <<"screenshotUrls">>, def |-> EmptyArr],
     [out |-> "ipadScreenshotUrls", src |-> <<"ipadScreenshotUrls">>,
      def |-> EmptyArr],
     [out |-> "appletvScreenshotUrls", src |-> <<"appletvScreenshotUrls">>,
      def |-> EmptyArr],
     [out |-> "artwork.icon",
      src |-> <<"artworkUrl512", "artworkUrl100", "artworkUrl60">>, def |-> NULL],
     [out |-> "artwork.icon60", src |-> <<"artworkUrl60">>, def |-> NULL],
     [out |-> "artwork.icon100", src |-> <<"artworkUrl100">>, def |-> NULL],
     [out |-> "artwork.icon512", src |-> <<"artworkUrl512">>, def |-> NULL],
     [out |-> "supportedDevices", src |-> <<"supportedDevices">>, def |-> EmptyArr],
     [out |-> "minimumOsVersion", src |-> <<"minimumOsVersion">>, def |-> NULL],
     [out |-> "languageCodesISO2A", src |-> <<"languageCodesISO2A">>,
      def |-> EmptyArr],
     [out |-> "fileSizeBytes", src |-> <<"fileSizeBytes">>, def |-> NULL],
     [out |-> "sellerName", src |-> <<"sellerName">>, def |-> NULL],
     [out |-> "formattedPrice", src |-> <<"formattedPrice">>, def |-> NULL],
     [out |-> "isGameCenterEnabled", src |-> <<"isGameCenterEnabled">>,
      def |-> Bool(FALSE)],
     [out |-> "features", src |-> <<"features">>, def |-> EmptyArr],
     [out |-> "advisories", src |-> <<"advisories">>, def |-> EmptyArr],
     [out |-> "kind", src |-> <<"kind">>, def |-> NULL],
     [out |-> "averageUserRatingForCurrentVersion",
      src |-> <<"averageUserRatingForCurrentVersion">>, def |-> NULL],
     [out |-> "userRatingCountForCurrentVersion",
      src |-> <<"userRatingCountForCurrentVersion">>, def |-> Num(0)]}

\* free: !app.price
AppFree_Falsy(app) == Bool(Truthy(Get(app, "price")))

\* free: app.price === 0
AppFree(app) == Bool(Get(app, "price") = Num(0))

\* The object literal parseApp returns for the lookup result `app`.
AppRecord(app) ==
    LET SchemaOf(k) == CHOOSE f \in AppSchema : f.out = k
    IN Obj([k \in {f.out : f \in AppSchema} \cup {"free"} |->
               IF k = "free" THEN AppFree(app)
               ELSE OrChain(app, SchemaOf(k).src, SchemaOf(k).def)])

\* parseApp(data) of the App Store: null, the record of results[0], or a
\* TypeError when results[0] is null or undefined.
ASParseApp(data) ==
    IF \/ ~Truthy(data)
       \/ ~Truthy(Get(data, "results"))
       \/ Get(Get(data, "results"), "length") = Num(0)
    THEN NULL
    ELSE IF Nullish(First(Get(data, "results"))) THEN THROWN
         ELSE AppRecord(First(Get(data, "results")))

\* data.results
\*   .filter(app => app.kind === 'software' || app.wrapperType === 'software')
\*   .map(app => parseApp({results: [app]})).filter(app => app !== null)
RECURSIVE AppsOf(_)
AppsOf(rs) ==
    IF rs = <<>> THEN <<>>
    ELSE IF \/ Get(Head(rs), "kind") = Str("software")
            \/ Get(Head(rs), "wrapperType") = Str("software")
         THEN (IF ASParseApp(Obj([results |-> Arr(<<Head(rs)>>)])) = NULL
               THEN <<>>
               ELSE <<ASParseApp(Obj([results |-> Arr(<<Head(rs)>>)]))>>)
              \o AppsOf(Tail(rs))
         ELSE AppsOf(Tail(rs))

\* parseApps(data): the filter callback reads app.kind of every element, so
\* one null element throws.
ASParseApps(data) ==
    IF \/ ~Truthy(data)
       \/ ~Truthy(Get(data, "results"))
       \/ ~IsArray(Get(data, "results"))
    THEN EmptyArr
    ELSE IF \E i \in 1..Len(Get(data, "results").a) :
                Nullish(Get(data, "results").a[i])
         THEN THROWN
         ELSE Arr(AppsOf(Get(data, "results").a))

\* parseSearch(data): parseApps, then data.resultCount read off data itself.
ASParseSearch(data) ==
    IF ASParseApps(data) = THROWN \/ Nullish(data) THEN THROWN
    ELSE Obj([results |-> ASParseApps(data),
              count |-> Num(Len(ASParseApps(data).a)),
              total |-> Or(Get(data, "resultCount"),
                           Num(Len(ASParseApps(data).a)))])

(***************************************************************************)
(* parsers/appStore: suggest, versionHistory, privacy, ratings, reviews    *)
(***************************************************************************)
\* xs.map(f) for a callback f that throws on some elements: the array of
\* the results, or THROWN.
RECURSIVE MapArr(_, _)
MapArr(f(_), xs) ==
    IF xs = <<>> THEN EmptyArr
    ELSE IF f(Head(xs)) = THROWN THEN THROWN
    ELSE IF MapArr(f, Tail(xs)) = THROWN THEN THROWN
    ELSE Arr(<<f(Head(xs))>> \o MapArr(f, Tail(xs)).a)

\* Array.prototype.sort, which is stable: xs ordered so that x comes before
\* y when Before(x, y), elements that compare equal keeping their order.
RECURSIVE Sort(_, _)
Sort(Before(_, _), xs) ==
    LET RECURSIVE Insert(_, _)
        Insert(x, ys) ==
            IF ys = <<>> THEN <<x>>
            ELSE IF Before(x, Head(ys)) THEN <<x>> \o ys
                 ELSE <<Head(ys)>> \o Insert(x, Tail(ys))
    IN IF xs = <<>> THEN <<>>
       ELSE Insert(xs[Len(xs)], Sort(Before, SubSeq(xs, 1, Len(xs) - 1)))

\* The list left in the order the suggestions were read.
SortByPriority_Unsorted(xs) == xs

\* xs.sort((a, b) => (b.priority || 0) - (a.priority || 0))
SortByPriority(xs) ==
    LET PriorityOf(s) ==
            IF Truthy(Get(s, "priority")) THEN Get(s, "priority").n ELSE 0
        Higher(a, b) == PriorityOf(a) > PriorityOf(b)
    IN Sort(Higher, xs)

\* parseSuggest(data) of the App Store: the hints as {term, priority},
\* sorted by priority.
ASParseSuggest(data) ==
    LET HintRecord(hint) ==
            IF Nullish(hint) THEN THROWN
            ELSE Obj([term |-> Or(Get(hint, "term"), NULL),
                      priority |-> Or(Get(hint, "priority"), Num(0))])
    IN IF \/ ~Truthy(data)
          \/ ~Truthy(Get(data, "hints"))
          \/ ~IsArray(Get(data, "hints"))
       THEN EmptyArr
       ELSE IF MapArr(HintRecord, Get(data, "hints").a) = THROWN THEN THROWN
            ELSE Arr(SortByPriority(MapArr(HintRecord, Get(data, "hints").a).a))

\* parseVersionHistory(data)
ASParseVersionHistory(data) ==
    LET VersionRecord(v) ==
            IF Nullish(v) THEN THROWN
            ELSE Obj([versionDisplay |->
                          Or(Or(Get(v, "versionDisplay"), Get(v, "version")), NULL),
                      releaseNotes |-> Or(Get(v, "releaseNotes"), NULL),
                      releaseDate |-> Or(Get(v, "releaseDate"), NULL),
                      releaseTimestamp |-> Or(Get(v, "releaseTimestamp"), NULL)])
    IN IF ~Truthy(data) \/ ~IsArray(data) THEN EmptyArr
       ELSE MapArr(VersionRecord, data.a)

\* (x || []).map(f): x falsy maps the empty list; a truthy x that is no
\* array has no map method.
MapOrEmpty(f(_), x) ==
    IF ~Truthy(x) THEN EmptyArr
    ELSE IF ~IsArray(x) THEN THROWN
         ELSE MapArr(f, x.a)

\* parsePrivacy(data): typeof data === 'object' holds of objects and arrays.
ASParsePrivacy(data) ==
    LET CategoryRecord(c) ==
            IF Nullish(c) THEN THROWN
            ELSE Obj([dataCategory |-> Or(Get(c, "dataCategory"), NULL),
                      identifier |-> Or(Get(c, "identifier"), NULL),
                      dataTypes |-> Or(Get(c, "dataTypes"), EmptyArr)])
        PrivacyTypeRecord(p) ==
            IF Nullish(p) THEN THROWN
            ELSE IF MapOrEmpty(CategoryRecord, Get(p, "dataCategories")) = THROWN
                 THEN THROWN
                 ELSE Obj([privacyType |-> Or(Get(p, "privacyType"), NULL),
                           identifier |-> Or(Get(p, "identifier"), NULL),
                           description |-> Or(Get(p, "description"), NULL),
                           dataCategories |->
                               MapOrEmpty(CategoryRecord, Get(p, "dataCategories")),
                           purposes |-> Or(Get(p, "purposes"), EmptyArr)])
    IN IF ~Truthy(data) \/ data.t \notin {"object", "array"} THEN NULL
       ELSE IF MapOrEmpty(PrivacyTypeRecord, Get(data, "privacyTypes")) = THROWN
            THEN THROWN
            ELSE Obj([managePrivacyChoicesUrl |->
                          Or(Get(data, "managePrivacyChoicesUrl"), NULL),
                      privacyTypes |->
                          MapOrEmpty(PrivacyTypeRecord, Get(data, "privacyTypes"))])

\* parseRatings(appData)
ASParseRatings(appData) ==
    LET histogram == Obj([k \in {"1", "2", "3", "4", "5"} |-> Num(0)])
    IN IF ~Truthy(appData) \/ ~Truthy(Get(appData, "rating"))
       THEN Obj([ratings |-> Num(0), histogram |-> histogram])
       ELSE Obj([ratings |-> Or(Get(Get(appData, "rating"), "count"), Num(0)),
                 average |-> Or(Get(Get(appData, "rating"), "average"), NULL),
                 histogram |-> histogram])

\* parseInt(v, 10), and parseFloat(v), on the rating values of the model,
\* none of which has a fraction.
ParseInt(v) ==
    CASE v.t = "number" -> v
      [] v.t = "string" ->
            (CASE v.s = "0" -> Num(0)
               [] v.s = "5" -> Num(5)
               [] v.s = "9" -> Num(9)
               [] v.s = "42" -> Num(42)
               [] v.s = "7" -> Num(7)
               [] v.s = "-1" -> Num(0 - 1)
               [] OTHER -> NAN)
      [] OTHER -> NAN

\* The capture of /\/id(\d+)/ in the URLs of the model: the digits, or "" for
\* no match.
UriId(s) ==
    CASE s = "https://itunes.apple.com/us/reviews/id42" -> "42"
      [] s = "https://apps.apple.com/us/app/id42" -> "42"
      [] OTHER -> ""

\* entry.k?.label || entry.k || def
LabelOr(entry, k, def) ==
    Or(Or(OptGet(Get(entry, k), "label"), Get(entry, k)), def)

\* One entry of the RSS feed as a review; uri.match throws for a truthy uri
\* that is not a string.
ReviewRecord(entry) ==
    LET \* entry.author?.[0] || entry.author || {}
        author == Or(Or(OptFirst(Get(entry, "author")), Get(entry, "author")),
                     EmptyObj)
        \* author.uri?.label || author.uri
        uri == Or(OptGet(Get(author, "uri"), "label"), Get(author, "uri"))
        hit == Truthy(uri) /\ UriId(uri.s) # ""
    IN IF Nullish(entry) THEN THROWN
       ELSE IF Truthy(uri) /\ uri.t # "string" THEN THROWN
       ELSE Obj([id |-> LabelOr(entry, "id", NULL),
                 userName |-> LabelOr(author, "name", Str("Anonymous")),
                 userUrl |-> IF hit THEN uri ELSE NULL,
                 version |-> LabelOr(entry, "im:version", NULL),
                 score |-> Or(ParseInt(LabelOr(entry, "im:rating", Str("0"))), Num(0)),
                 title |-> LabelOr(entry, "title", NULL),
                 text |-> Or(Or(Or(OptGet(Get(entry, "content"), "label"),
                                   OptGet(OptFirst(Get(entry, "content")), "label")),
                                Get(entry, "content")),
                             NULL),
                 updated |-> LabelOr(entry, "updated", NULL),
                 url |-> Or(Or(OptPath(OptFirst(Get(entry, "link")),
                                       <<"attributes", "href">>),
                               OptPath(Get(entry, "link"), <<"attributes", "href">>)),
                            NULL)])

\* parseReviews(data) of the App Store: the feed's entries after the first
\* (entries.slice(1)).
ASParseReviews(data) ==
    IF \/ ~Truthy(data)
       \/ ~Truthy(Get(data, "feed"))
       \/ ~Truthy(Get(Get(data, "feed"), "entry"))
    THEN EmptyArr
    ELSE IF ~IsArray(Get(Get(data, "feed"), "entry")) THEN EmptyArr
         ELSE MapArr(ReviewRecord,
                     LET es == Get(Get(data, "feed"), "entry").a
                     IN IF es = <<>> THEN <<>> ELSE Tail(es))

(***************************************************************************)
(* parsers/appStore/list.js: parseList and its extractors                  *)
(***************************************************************************)
\* parseFloat(priceStr.replace(/[^0-9.]/g, '')) on the price labels of the
\* model.
StripParseFloat(s) ==
    CASE s = "$2.00" -> Num(2)
      [] s = "0.00" -> Num(0)
      [] s = "0" -> Num(0)
      [] s = "5" -> Num(5)
      [] OTHER -> NAN

\* href.match(/id(\d+)/)?.[1] on the links of the model.
HrefId(s) ==
    CASE s = "https://apps.apple.com/us/developer/id7" -> Str("7")
      [] OTHER -> UNDEF

\* entry['im:price']?.label || entry['im:price'] || '0', then replace, which
\* only a string has.
extractPrice(entry) ==
    IF LabelOr(entry, "im:price", Str("0")).t # "string" THEN THROWN
    ELSE Or(StripParseFloat(LabelOr(entry, "im:price", Str("0")).s), Num(0))

\* parseInt(countStr.replace(/[^0-9]/g, ''), 10) on the labels of the model.
StripParseInt(s) ==
    CASE s = "$2.00" -> Num(200)
      [] s = "0.00" -> Num(0)
      [] s = "0" -> Num(0)
      [] s = "5" -> Num(5)
      [] OTHER -> NAN

extractRatingCount(entry) ==
    IF LabelOr(entry, "im:ratingCount", Str("0")).t # "string" THEN THROWN
    ELSE Or(StripParseInt(LabelOr(entry, "im:ratingCount", Str("0")).s), Num(0))

extractArtistId(entry) ==
    IF ~Truthy(OptPath(entry, <<"im:artist", "attributes", "href">>)) THEN NULL
    ELSE IF OptPath(entry, <<"im:artist", "attributes", "href">>).t # "string"
         THEN THROWN
         ELSE Or(HrefId(OptPath(entry, <<"im:artist", "attributes", "href">>).s),
                 NULL)

extractRating(entry) ==
    IF Truthy(Or(OptPath(entry, <<"im:rating", "label">>), Get(entry, "im:rating")))
    THEN ParseInt(Or(OptPath(entry, <<"im:rating", "label">>),
                     Get(entry, "im:rating")))
    ELSE NULL

extractIcon(entry) ==
    IF IsArray(Get(entry, "im:image")) /\ Len(Get(entry, "im:image").a) > 0
    THEN Or(Or(OptGet(Get(entry, "im:image").a[Len(Get(entry, "im:image").a)],
                      "label"),
               OptGet(Get(entry, "im:image").a[1], "label")),
            NULL)
    ELSE Or(OptPath(entry, <<"im:image", "label">>), NULL)

\* An extractor of the entry threw: entry itself is null, or replace / match
\* was called on something that is not a string.
EntryThrows(entry) ==
    \/ Nullish(entry)
    \/ extractArtistId(entry) = THROWN
    \/ extractPrice(entry) = THROWN
    \/ extractRatingCount(entry) = THROWN

\* The lookup-format app built from one RSS entry; the extractors that are
\* plain || chains (extractId, extractBundleId, extractTitle, extractArtist,
\* extractDescription, extractCategory, extractReleaseDate) are written out.
EntryApp(entry) ==
    LET P(ks) == OptPath(entry, ks)
    IN Obj([trackId |-> Or(Or(Or(P(<<"id", "attributes", "im:id">>),
                                 P(<<"im:id", "label">>)),
                              P(<<"id", "label">>)),
                           NULL),
            bundleId |-> Or(P(<<"im:bundleId", "label">>), NULL),
            trackName |-> Or(Or(Or(P(<<"title", "label">>),
                                   P(<<"im:name", "label">>)),
                                Get(entry, "title")),
                             NULL),
            artistName |-> Or(Or(P(<<"im:artist", "label">>),
                                 P(<<"author", "name", "label">>)),
                              NULL),
            artistId |-> extractArtistId(entry),
            description |-> Or(Or(Or(P(<<"summary", "label">>),
                                     P(<<"content", "label">>)),
                                  P(<<"description", "label">>)),
                               NULL),
            price |-> extractPrice(entry),
            currency |-> Str("USD"),
            averageUserRating |-> extractRating(entry),
            userRatingCount |-> extractRatingCount(entry),
            artworkUrl100 |-> extractIcon(entry),
            artworkUrl512 |-> extractIcon(entry),
            screenshotUrls |-> EmptyArr,
            primaryGenreName |-> Or(Or(Or(P(<<"category", "attributes", "label">>),
                                          P(<<"im:category", "attributes", "label">>)),
                                       P(<<"category", "label">>)),
                                    NULL),
            releaseDate |-> Or(Or(Or(P(<<"im:releaseDate", "label">>),
                                     P(<<"published", "label">>)),
                                  P(<<"updated", "label">>)),
                               NULL),
            kind |-> Str("software")])

\* The loop of parseList inside its try: the apps pushed before the first
\* entry that throws.
RECURSIVE ListApps(_)
ListApps(es) ==
    IF es = <<>> THEN <<>>
    ELSE IF EntryThrows(Head(es)) THEN <<>>
    ELSE <<ASParseApp(Obj([results |-> Arr(<<EntryApp(Head(es))>>)]))>>
         \o ListApps(Tail(es))

\* parseList(data) of the App Store.
ASParseList(data) ==
    IF ~Truthy(data) \/ ~Truthy(Get(data, "feed")) THEN EmptyArr
    ELSE IF /\ Truthy(Get(Get(data, "feed"), "entry"))
            /\ IsArray(Get(Get(data, "feed"), "entry"))
         THEN Arr(ListApps(Get(Get(data, "feed"), "entry").a))
         ELSE EmptyArr

(***************************************************************************)
(* HTML pages.  A page is a non-empty string; m records what the parsers'  *)
(* regular expressions capture in it.                                      *)
(***************************************************************************)
NoMatch == "<no match>"

Html(m) == [t |-> "string", s |-> "<html>", m |-> m]

\* The first capture of pattern k in html, NoMatch when the pattern fails.
Cap(html, k) ==
    IF "m" \in DOMAIN html /\ k \in DOMAIN html.m THEN html.m[k] ELSE NoMatch

\* All captures of pattern k in html, in document order.
Caps(html, k) ==
    IF "m" \in DOMAIN html /\ k \in DOMAIN html.m THEN html.m[k] ELSE <<>>

\* What JSON.parse threw on: the payload of a script that is no JSON.
BadJson == [t |-> "badjson"]

\* typeof html === 'string'
IsString(v) == v.t = "string"

\* s.trim() on the captures of the model
Trim(s) == CASE s = " " -> "" [] s = " Free " -> "Free" [] OTHER -> s

\* s.toLowerCase() on the captures of the model
Lower(s) ==
    CASE s \in {"Free", "FREE"} -> "free"
      [] s \in {"CAMERA", "Camera"} -> "camera"
      [] s = "Location" -> "location"
      [] OTHER -> s

(***************************************************************************)
(* The HTML-side parsers: guard, outer try/catch, strategies               *)
(***************************************************************************)
VARIABLES
    left,        \* the dedup sets of earlier parser calls, as they were on return
    first,       \* the first parser call of the run: parser, input, result
    calls,       \* parser calls made so far
    inflight     \* tool calls running at once: each call's frame, and the
                 \* abort timers that are armed

\* The set left behind by an earlier call is still there.
NewSet_Survives(old) == old

\* const seen = new Set() inside the parser: a set of this call, empty
\* whatever an earlier call left behind.
NewSet(old) == {}

\* if (!html || typeof html !== 'string') return <empty>
HtmlGuard(html) == ~Truthy(html) \/ ~IsString(html)

OuterCatch_Rethrows(r, empty) == r

\* try { ...; return r } catch (error) { return empty }
OuterCatch(r, empty) == IF r = THROWN THEN empty ELSE r

\* String(v) for the values of the model (template literals, toString()).
ToStr(v) ==
    CASE v.t = "string" -> v.s
      [] v.t = "number" ->
            (IF v.n \in 1..9
             THEN <<"1", "2", "3", "4", "5", "6", "7", "8", "9">>[v.n]
             ELSE IF v.n = 0 THEN "0" ELSE "42")
      [] v.t = "null" -> "null"
      [] v.t = "undefined" -> "undefined"
      [] OTHER -> "[object Object]"

\* The URL of an app page.
PlayUrl(id) == Str("https://play.google.com/store/apps/details?id=" \o id)

(***************************************************************************)
(* parsers/googlePlay/app.js: parseApp (the identity and price fields)     *)
(***************************************************************************)
\* priceMatch ? priceMatch[1].trim() : 'Free'
PriceText(html) ==
    IF Cap(html, "price") = NoMatch THEN "Free" ELSE Trim(Cap(html, "price"))

\* priceText.toLowerCase() === 'free' || priceText === '0' || !priceText
GPFree(html) ==
    \/ Lower(PriceText(html)) = "free"
    \/ PriceText(html) = "0"
    \/ PriceText(html) = ""

\* appData: read off the first JSON-LD script when it is a
\* SoftwareApplication; it stays {} when there is no script, when JSON.parse
\* throws or when the payload is null.
AppData(html) ==
    LET ld == Caps(html, "ld")
    IN IF ld = <<>> THEN EmptyObj
       ELSE IF ld[1] = BadJson \/ Nullish(ld[1]) THEN EmptyObj
       ELSE IF Get(ld[1], "@type") = Str("SoftwareApplication")
            THEN Obj([title |-> Or(Get(ld[1], "name"), NULL),
                      description |-> Or(Get(ld[1], "description"), NULL),
                      url |-> Or(Get(ld[1], "url"), NULL),
                      icon |-> Or(Get(ld[1], "image"), NULL),
                      aggregateRating |-> Or(Get(ld[1], "aggregateRating"), NULL),
                      offers |-> Or(Get(ld[1], "offers"), NULL)])
            ELSE EmptyObj

\* appData.title
LdTitle(html) == Get(AppData(html), "title")

\* match ? match[1].trim() : null
CapOrNull(html, k) ==
    IF Cap(html, k) = NoMatch THEN NULL ELSE Str(Trim(Cap(html, k)))

\* The fields of the record parseApp of Google Play returns that are
\* literals in the code.
GPAppLiterals ==
    [developerEmail |-> NULL, developerWebsite |-> NULL, developerAddress |-> NULL,
     headerImage |-> NULL, contentRatingDescription |-> NULL, video |-> NULL,
     videoImage |-> NULL, comments |-> EmptyArr, editorsChoice |-> Bool(FALSE),
     minInstalls |-> NULL, maxInstalls |-> NULL, permissions |-> EmptyArr,
     similarApps |-> EmptyArr]

\* The fields of the record that are read off the page: the markup or meta
\* capture when its pattern matches, else the JSON-LD value (title, icon,
\* description) or the default.
GPAppFields(html) ==
    LET appId == IF Cap(html, "docid") = NoMatch THEN NULL
                 ELSE Str(Cap(html, "docid"))
        description == IF Cap(html, "description") = NoMatch
                       THEN Get(AppData(html), "description")
                       ELSE Str(Trim(Cap(html, "description")))
        rating == IF Cap(html, "rating") = NoMatch THEN NULL
                  ELSE ParseInt(Str(Cap(html, "rating")))
        ratingCount == IF Cap(html, "ratingCount") = NoMatch THEN Num(0)
                       ELSE ParseInt(Str(Cap(html, "ratingCount")))
        flag(k) == IF Cap(html, k) = NoMatch THEN NULL ELSE Bool(TRUE)
        raw(k) == IF Cap(html, k) = NoMatch THEN NULL ELSE Str(Cap(html, k))
    IN [appId |-> appId,
        title |-> IF Cap(html, "title") = NoMatch THEN LdTitle(html)
                  ELSE Str(Trim(Cap(html, "title"))),
        url |-> IF Truthy(appId) THEN PlayUrl(appId.s) ELSE NULL,
        \* description.substring(0, 200): the descriptions of the model are
        \* shorter than that
        summary |-> IF Truthy(description) THEN description ELSE NULL,
        description |-> description,
        developer |-> CapOrNull(html, "developer"),
        developerId |-> raw("developerId"),
        icon |-> IF Cap(html, "icon") = NoMatch THEN Get(AppData(html), "icon")
                 ELSE Str(Cap(html, "icon")),
        score |-> rating,
        \* rating.toFixed(1)
        scoreText |-> IF Truthy(rating) THEN Str(ToStr(rating) \o ".0") ELSE NULL,
        ratings |-> ratingCount,
        reviews |-> ratingCount,
        price |-> IF GPFree(html) THEN Num(0) ELSE NULL,
        priceText |-> Str(PriceText(html)),
        free |-> Bool(GPFree(html)),
        currency |-> IF GPFree(html) THEN NULL ELSE Str("USD"),
        version |-> CapOrNull(html, "version"),
        contentRating |-> CapOrNull(html, "contentRating"),
        adSupported |-> flag("adSupported"),
        inAppPurchases |-> flag("inAppPurchases"),
        screenshots |-> Arr([i \in 1..Len(Caps(html, "screenshots")) |->
                                Str(Caps(html, "screenshots")[i])]),
        recentChanges |-> CapOrNull(html, "recentChanges"),
        category |-> raw("category"),
        categoryId |-> raw("category"),
        size |-> CapOrNull(html, "size"),
        \* the first number in the text; the versions of the model are numbers
        androidVersion |-> CapOrNull(html, "androidVersion"),
        androidVersionText |-> CapOrNull(html, "androidVersion"),
        updated |-> CapOrNull(html, "updated"),
        installs |-> raw("installs"),
        requiresAndroid |-> CapOrNull(html, "androidVersion")]

\* parseApp(html) of Google Play: description.substring throws for a JSON-LD
\* description that is truthy and no string, into the outer catch.
GPParseApp(html) ==
    LET body == IF /\ Truthy(GPAppFields(html).description)
                   /\ ~IsString(GPAppFields(html).description)
                THEN THROWN
                ELSE Obj(GPAppFields(html) @@ GPAppLiterals)
    IN IF ~Truthy(html) \/ ~IsString(html) THEN NULL ELSE OuterCatch(body, NULL)

(***************************************************************************)
(* parsers/googlePlay/reviews.js                                           *)
(***************************************************************************)
EmptyReviews == Obj([data |-> EmptyArr, nextPaginationToken |-> NULL])

\* reviews and seenReviewIds before the first strategy runs.  cands is not in
\* the code: it lists every candidate the strategies produced, with its key,
\* in the order they produced them.
NoReviews == [revs |-> <<>>, seen |-> NewSet(left.reviews), cands |-> <<>>]

\* if (review && !seenReviewIds.has(key)) { seenReviewIds.add(key);
\*     reviews.push(review) }: the first candidate with a key stays as it is,
\* a later one with that key is dropped.
PushReview(acc, review, key) ==
    IF review = NULL THEN acc
    ELSE IF key \in acc.seen
         THEN [acc EXCEPT !.cands = Append(@, [key |-> key, review |-> review])]
         ELSE [revs |-> Append(acc.revs, review),
               seen |-> acc.seen \cup {key},
               cands |-> Append(acc.cands, [key |-> key, review |-> review])]

\* review.reviewId || review.text, the key of strategies 1 and 2
ReviewKey(review) ==
    IF review = NULL THEN NULL
    ELSE Or(Get(review, "reviewId"), Get(review, "text"))

\* extractFromJsonLd(jsonLd)
extractFromJsonLd(j) ==
    Obj([reviewId |-> OrChain(j, <<"@id", "identifier">>, NULL),
         userName |-> Or(Or(OptGet(Get(j, "author"), "name"), Get(j, "author")),
                         Str("Anonymous")),
         userImage |-> Or(OptGet(Get(j, "author"), "image"), NULL),
         date |-> OrChain(j, <<"datePublished", "dateCreated">>, NULL),
         dateText |-> OrChain(j, <<"datePublished", "dateCreated">>, NULL),
         score |-> Or(Or(OptGet(Get(j, "reviewRating"), "ratingValue"),
                         Get(j, "ratingValue")), Num(0)),
         scoreText |-> Str(ToStr(Or(Or(OptGet(Get(j, "reviewRating"), "ratingValue"),
                                       Get(j, "ratingValue")), Num(0)))),
         title |-> OrChain(j, <<"headline", "name">>, NULL),
         text |-> OrChain(j, <<"reviewBody", "description", "text">>, NULL),
         replyDate |-> NULL,
         replyText |-> NULL,
         version |-> NULL,
         thumbsUp |-> Or(Get(j, "upvoteCount"), Num(0)),
         criterias |-> EmptyArr])

\* normalizeReview(review)
normalizeReview(r) ==
    IF ~Truthy(r) \/ r.t \notin {"object", "array"} THEN NULL
    ELSE Obj([reviewId |-> OrChain(r, <<"reviewId", "id", "identifier">>, NULL),
              userName |-> OrChain(r, <<"userName", "author", "authorName", "name">>,
                                   Str("Anonymous")),
              userImage |-> OrChain(r, <<"userImage", "avatar", "authorImage">>, NULL),
              date |-> OrChain(r, <<"date", "timestamp", "datePublished", "createdAt">>,
                               NULL),
              dateText |-> OrChain(r, <<"dateText", "date", "timestamp">>, NULL),
              score |-> OrChain(r, <<"score", "rating", "starRating", "ratingValue">>,
                                Num(0)),
              scoreText |-> Str(ToStr(OrChain(r, <<"score", "rating", "starRating",
                                                   "ratingValue">>, Num(0)))),
              title |-> OrChain(r, <<"title", "headline">>, NULL),
              text |-> OrChain(r, <<"text", "comment", "body", "reviewBody",
                                    "description">>, NULL),
              replyDate |-> OrChain(r, <<"replyDate", "developerCommentDate">>, NULL),
              replyText |-> OrChain(r, <<"replyText", "developerComment", "reply">>,
                                    NULL),
              version |-> OrChain(r, <<"version", "appVersion">>, NULL),
              thumbsUp |-> OrChain(r, <<"thumbsUp", "helpful", "upvoteCount">>, Num(0)),
              criterias |-> OrChain(r, <<"criterias", "criteria">>, EmptyArr)])

\* reviewList.forEach over the items of one JSON-LD script; a null item
\* throws out of the loop into the script's catch, the pushes made so far
\* stay.
RECURSIVE LdItems(_, _)
LdItems(acc, items) ==
    IF items = <<>> THEN acc
    ELSE IF Nullish(Head(items)) THEN acc
    ELSE IF \/ Get(Head(items), "@type") = Str("Review")
            \/ Truthy(Get(Head(items), "reviewBody"))
         THEN LdItems(PushReview(acc, extractFromJsonLd(Head(items)),
                                 ReviewKey(extractFromJsonLd(Head(items)))),
                      Tail(items))
         ELSE LdItems(acc, Tail(items))

\* Strategy 1 on one JSON-LD script with payload p.
LdScript(acc, p) ==
    IF p = BadJson \/ Nullish(p) THEN acc
    ELSE IF Get(p, "@type") = Str("Review") THEN LdItems(acc, <<p>>)
    ELSE IF Get(p, "@type") = Str("ItemList") /\ Truthy(Get(p, "itemListElement"))
         THEN IF IsArray(Get(p, "itemListElement"))
              THEN LdItems(acc, Get(p, "itemListElement").a)
              ELSE acc
         ELSE acc

\* jsonData.forEach of strategy 2 on the items of one embedded array.
RECURSIVE ScriptItems(_, _)
ScriptItems(acc, items) ==
    IF items = <<>> THEN acc
    ELSE IF /\ Truthy(Head(items))
            /\ \/ Truthy(Get(Head(items), "reviewId"))
               \/ Truthy(Get(Head(items), "text"))
               \/ Truthy(Get(Head(items), "rating"))
               \/ Truthy(Get(Head(items), "comment"))
         THEN ScriptItems(PushReview(acc, normalizeReview(Head(items)),
                                     ReviewKey(normalizeReview(Head(items)))),
                          Tail(items))
         ELSE ScriptItems(acc, Tail(items))

\* Strategy 2 on one script whose embedded array has payload p.
EmbeddedScript(acc, p) ==
    IF p = BadJson \/ ~IsArray(p) THEN acc ELSE ScriptItems(acc, p.a)

\* The review of one markup block b (its captures; NoMatch where a pattern
\* fails; rating 0 when no rating pattern matches; the blocks of the model
\* carry no thumbs-up count).
BlockField(b, k) == IF b[k] = NoMatch THEN NULL ELSE Str(b[k])

BlockReview(b) ==
    Obj([reviewId |-> BlockField(b, "id"),
         userName |-> Or(BlockField(b, "author"), Str("Anonymous")),
         userImage |-> NULL,
         date |-> BlockField(b, "date"),
         dateText |-> BlockField(b, "date"),
         score |-> Num(b.rating),
         scoreText |-> Str(ToStr(Num(b.rating))),
         title |-> NULL,
         text |-> BlockField(b, "text"),
         replyDate |-> NULL,
         replyText |-> NULL,
         version |-> NULL,
         thumbsUp |-> Num(0),
         criterias |-> EmptyArr])

\* reviewId || text || `${author}-${date}`
BlockKey(b) ==
    Or(Or(BlockField(b, "id"), BlockField(b, "text")),
       Str(ToStr(BlockField(b, "author")) \o "-" \o ToStr(BlockField(b, "date"))))

\* Strategy 3 on one markup block.
MarkupBlock(acc, b) ==
    IF b.rating # 0 \/ Truthy(BlockField(b, "text")) \/ Truthy(BlockField(b, "author"))
    THEN PushReview(acc, BlockReview(b), BlockKey(b))
    ELSE acc

\* for (const x of xs) acc = step(acc, x)
RECURSIVE Fold(_, _, _)
Fold(step(_, _), acc, xs) ==
    IF xs = <<>> THEN acc ELSE Fold(step, step(acc, Head(xs)), Tail(xs))

\* The three strategies in their order, on one accumulator.
ReviewsFound(html) ==
    Fold(MarkupBlock,
         Fold(EmbeddedScript,
              Fold(LdScript, NoReviews, Caps(html, "ld")),
              Caps(html, "scripts")),
         Caps(html, "blocks"))

\* let nextToken = '' in place of null.
GPParseReviews_EmptyToken(html) ==
    LET body == Obj([data |-> Arr(ReviewsFound(html).revs),
                     nextPaginationToken |-> Str(IF Cap(html, "token") = NoMatch
                                                 THEN "" ELSE Cap(html, "token"))])
    IN IF HtmlGuard(html) THEN EmptyReviews ELSE OuterCatch(body, EmptyReviews)

\* parseReviews(html) of Google Play.
GPParseReviews(html) ==
    LET body == Obj([data |-> Arr(ReviewsFound(html).revs),
                     nextPaginationToken |->
                         IF Cap(html, "token") = NoMatch THEN NULL
                         ELSE Str(Cap(html, "token"))])
    IN IF HtmlGuard(html) THEN EmptyReviews
       ELSE OuterCatch(body, EmptyReviews)

(***************************************************************************)
(* parsers/googlePlay: search.js, list.js, similar.js, categories.js       *)
(***************************************************************************)
\* apps.find(a => a.appId === appId)
HasApp(apps, id) == \E i \in 1..Len(apps) : Get(apps[i], "appId") = Str(id)

\* Pattern 1 of parseSearch: an app id in a link inside a script.
ScriptLink(apps, id) ==
    IF HasApp(apps, id) THEN apps
    ELSE Append(apps, Obj([appId |-> Str(id), url |-> PlayUrl(id)]))

\* An anchor of the visible markup, with the title found after it.
VisibleLink(apps, l) ==
    IF HasApp(apps, l.id) THEN apps
    ELSE Append(apps, Obj([appId |-> Str(l.id),
                           title |-> IF l.title = NoMatch THEN NULL ELSE Str(l.title),
                           url |-> PlayUrl(l.id)]))

\* parseSearch(html) of Google Play.
GPParseSearch(html) ==
    LET body == Arr(Fold(VisibleLink,
                         Fold(ScriptLink, <<>>, Caps(html, "scriptIds")),
                         Caps(html, "links")))
    IN IF HtmlGuard(html) THEN EmptyArr ELSE OuterCatch(body, EmptyArr)

\* parseList(html) of Google Play.
GPParseList(html) == GPParseSearch(html)

\* A link of the similar-apps section.
SimilarLink(apps, l) ==
    IF HasApp(apps, l.id) THEN apps
    ELSE Append(apps, Obj([appId |-> Str(l.id),
                           url |-> PlayUrl(l.id),
                           title |-> IF l.title = NoMatch THEN NULL ELSE Str(l.title),
                           icon |-> NULL,
                           score |-> NULL,
                           scoreText |-> NULL,
                           priceText |-> NULL,
                           free |-> NULL,
                           summary |-> NULL,
                           developer |-> NULL,
                           developerId |-> NULL]))

\* parseSimilar(html) of Google Play.
GPParseSimilar(html) ==
    LET body == Arr(Fold(ScriptLink,
                         Fold(SimilarLink, <<>>, Caps(html, "similarLinks")),
                         Caps(html, "similarIds")))
    IN IF HtmlGuard(html) THEN EmptyArr ELSE OuterCatch(body, EmptyArr)

\* The list parseCategories returns when it finds no category.
CommonCategories ==
    <<"APPLICATION", "GAME", "ART_AND_DESIGN", "AUTO_AND_VEHICLES", "BEAUTY",
      "BOOKS_AND_REFERENCE", "BUSINESS", "COMICS", "COMMUNICATION", "DATING",
      "EDUCATION", "ENTERTAINMENT", "EVENTS", "FINANCE", "FOOD_AND_DRINK",
      "HEALTH_AND_FITNESS", "HOUSE_AND_HOME", "LIBRARIES_AND_DEMO", "LIFESTYLE",
      "MAPS_AND_NAVIGATION", "MEDICAL", "MUSIC_AND_AUDIO", "NEWS_AND_MAGAZINES",
      "PARENTING", "PERSONALIZATION", "PHOTOGRAPHY", "PRODUCTIVITY", "SHOPPING",
      "SOCIAL", "SPORTS", "TOOLS", "TRAVEL_AND_LOCAL", "VIDEO_PLAYERS", "WEATHER">>

\* The category names of the fallback list and of the model's pages, in the
\* order of their UTF-16 code units, the order categories.sort() puts them
\* in.
CodeUnitOrder ==
    <<"APPLICATION", "ART_AND_DESIGN", "AUTO_AND_VEHICLES", "BEAUTY",
      "BOOKS", "BOOKS_AND_REFERENCE", "BUSINESS", "COMICS", "COMMUNICATION",
      "DATING", "EDUCATION", "ENTERTAINMENT", "EVENTS", "FINANCE",
      "FOOD_AND_DRINK", "GAME", "HEALTH_AND_FITNESS", "HOUSE_AND_HOME",
      "LIBRARIES_AND_DEMO", "LIFESTYLE", "MAPS_AND_NAVIGATION", "MEDICAL",
      "MUSIC_AND_AUDIO", "NEWS_AND_MAGAZINES", "PARENTING",
      "PERSONALIZATION", "PHOTOGRAPHY", "PRODUCTIVITY", "SHOPPING", "SOCIAL",
      "SPORTS", "TOOLS", "TRAVEL_AND_LOCAL", "VIDEO_PLAYERS", "WEATHER">>

\* if (category && !categories.includes(category)) categories.push(category)
AddCategory(cs, c) == IF \E i \in 1..Len(cs) : cs[i] = c THEN cs ELSE Append(cs, c)

CategoriesFound(html) ==
    Fold(AddCategory, Fold(AddCategory, <<>>, Caps(html, "categoryLinks")),
         Caps(html, "categoryNames"))

StrArr(xs) == Arr([i \in 1..Len(xs) |-> Str(xs[i])])

\* parseCategories(html)
GPParseCategories(html) ==
    LET Rank(c) == CHOOSE i \in 1..Len(CodeUnitOrder) : CodeUnitOrder[i] = c
        Earlier(a, b) == Rank(a) < Rank(b)
        body == IF CategoriesFound(html) = <<>> THEN StrArr(CommonCategories)
                ELSE StrArr(Sort(Earlier, CategoriesFound(html)))
    IN IF HtmlGuard(html) THEN EmptyArr ELSE OuterCatch(body, EmptyArr)

(***************************************************************************)
(* parsers/googlePlay/datasafety.js                                        *)
(***************************************************************************)
NoDataSafety ==
    [dataShared |-> EmptyArr, dataCollected |-> EmptyArr,
     securityPractices |-> EmptyArr, privacyPolicyUrl |-> NULL]

\* The three assignments from a data-safety object d:
\* if (d.k) result.k = Array.isArray(d.k) ? d.k : []
TakeLists(res, d) ==
    LET ListOr(k, old) ==
            IF ~Truthy(Get(d, k)) THEN old
            ELSE IF IsArray(Get(d, k)) THEN Get(d, k) ELSE EmptyArr
    IN [res EXCEPT !.dataShared = ListOr("dataShared", @),
                   !.dataCollected = ListOr("dataCollected", @),
                   !.securityPractices = ListOr("securityPractices", @)]

\* Strategy 2 on one JSON-LD script: JSON.parse or the property read of a
\* null payload throws into the script's catch; the object read is
\* jsonLd.dataSafety || jsonLd['data-safety'] || jsonLd.data_safety.
SafetyLd(res, p) ==
    LET d == OrChain(p, <<"dataSafety", "data-safety", "data_safety">>, UNDEF)
    IN IF p = BadJson \/ Nullish(p) THEN res
       ELSE IF Truthy(d) THEN TakeLists(res, d) ELSE res

\* Strategy 3 on one script whose dataSafety object has payload p.
SafetyScript(res, p) == IF p = BadJson THEN res ELSE TakeLists(res, p)

\* Strategies 1 to 3.
SafetyFound(html) ==
    Fold(SafetyScript,
         Fold(SafetyLd,
              [NoDataSafety EXCEPT !.privacyPolicyUrl =
                  IF Cap(html, "policy") = NoMatch THEN NULL
                  ELSE Str(Cap(html, "policy"))],
              Caps(html, "ld")),
         Caps(html, "safetyScripts"))

\* Strategy 4 starts with sectionHtml.matchAll(pattern) for a pattern without
\* the g flag, which is a TypeError: a page with a non-empty data-safety
\* section leaves the try through the outer catch.
SectionThrows(html) == Cap(html, "section") \notin {NoMatch, ""}

\* parseDataSafety(html)
GPParseDataSafety(html) ==
    LET body ==
            IF SectionThrows(html) THEN THROWN
            ELSE IF \/ Len(SafetyFound(html).dataShared.a) > 0
                    \/ Len(SafetyFound(html).dataCollected.a) > 0
                    \/ Len(SafetyFound(html).securityPractices.a) > 0
                    \/ Truthy(SafetyFound(html).privacyPolicyUrl)
                 THEN Obj(SafetyFound(html))
                 ELSE NULL
    IN IF HtmlGuard(html) THEN NULL ELSE OuterCatch(body, NULL)

(***************************************************************************)
(* parsers/googlePlay/permissions.js                                       *)
(***************************************************************************)
NoPermissions == [perms |-> <<>>, seen |-> NewSet(left.permissions)]

\* Short mode pushing with no look at seenPermissions.
PushPermission_ShortKeepsAll(acc, name, type, short) ==
    IF short THEN [acc EXCEPT !.perms = Append(@, Str(name))]
    ELSE IF Lower(name) \in acc.seen THEN acc
    ELSE [perms |-> Append(acc.perms, Obj([permission |-> Str(name), type |-> type])),
          seen |-> acc.seen \cup {Lower(name)}]

\* if (!seenPermissions.has(name.toLowerCase())) { add; push }
PushPermission(acc, name, type, short) ==
    IF Lower(name) \in acc.seen THEN acc
    ELSE [perms |-> Append(acc.perms,
                           IF short THEN Str(name)
                           ELSE Obj([permission |-> Str(name), type |-> type])),
          seen |-> acc.seen \cup {Lower(name)}]

\* Strategy 1 on one item of the permissions section; no name pattern
\* matching leaves permissionName null.
SectionItem(acc, it, short) ==
    IF it.name = NoMatch \/ Trim(it.name) = "" THEN acc
    ELSE PushPermission(acc, Trim(it.name), Str(it.type), short)

\* Pattern 1 of strategy 2: a quoted string of the permissions array.
QuotedName(acc, s, short) ==
    IF Trim(s) # "" /\ Len(Trim(s)) > 3
    THEN PushPermission(acc, Trim(s), Str(""), short)
    ELSE acc

\* Pattern 2 of strategy 2: jsonData.forEach; an object whose name is
\* truthy and no string throws at toLowerCase, into the array's catch, the
\* pushes made so far stay.
RECURSIVE JsonItems(_, _, _)
JsonItems(acc, items, short) ==
    IF items = <<>> THEN acc
    ELSE IF IsString(Head(items))
         THEN JsonItems(PushPermission(acc, Head(items).s, Str(""), short),
                        Tail(items), short)
    ELSE IF Truthy(Head(items)) /\ Head(items).t \in {"object", "array"}
         THEN LET name == OrChain(Head(items),
                                  <<"name", "permission", "label", "title">>, UNDEF)
                  type == OrChain(Head(items), <<"type", "category">>, Str(""))
              IN IF ~Truthy(name) THEN JsonItems(acc, Tail(items), short)
                 ELSE IF ~IsString(name) THEN acc
                 ELSE JsonItems(PushPermission(acc, name.s, type, short),
                                Tail(items), short)
    ELSE JsonItems(acc, Tail(items), short)

\* Strategy 2 on one permissions array a: its quoted strings, then its
\* parsed items.
PermissionArray(acc, a, short) ==
    LET quoted == Fold(LAMBDA x, s : QuotedName(x, s, short), acc, a.quoted)
    IN IF a.json = BadJson \/ ~IsArray(a.json) THEN quoted
       ELSE JsonItems(quoted, a.json.a, short)

\* Strategy 3 pushing with no look at seenPermissions.
MetaName_Unchecked(acc, s, short) ==
    IF Trim(s) # ""
    THEN [acc EXCEPT !.perms = Append(@, IF short THEN Str(Trim(s))
                                         ELSE Obj([permission |-> Str(Trim(s)),
                                                   type |-> Str("")]))]
    ELSE acc

\* Strategy 3: a meta tag.
MetaName(acc, s, short) ==
    IF Trim(s) # "" THEN PushPermission(acc, Trim(s), Str(""), short) ELSE acc

\* Strategy 4: a phrase of the page text.
TextPhrase(acc, s, short) ==
    IF Trim(s) # "" /\ Len(Trim(s)) > 5 /\ Len(Trim(s)) < 100
    THEN PushPermission(acc, Trim(s), Str(""), short)
    ELSE acc

\* Strategies 1 to 3.
PermissionsStructured(html, short) ==
    Fold(LAMBDA x, s : MetaName(x, s, short),
         Fold(LAMBDA x, a : PermissionArray(x, a, short),
              Fold(LAMBDA x, it : SectionItem(x, it, short), NoPermissions,
                   Caps(html, "permissionItems")),
              Caps(html, "permissionArrays")),
         Caps(html, "permissionMeta"))

\* The text heuristic runs only below this many structured permissions.
HeuristicThreshold == 3

\* Strategy 4 run without the test of permissions.length.
GPParsePermissions_AlwaysHeuristic(html, short) ==
    LET body == Arr(Fold(LAMBDA x, s : TextPhrase(x, s, short),
                         PermissionsStructured(html, short),
                         Caps(html, "permissionPhrases")).perms)
    IN IF HtmlGuard(html) THEN EmptyArr ELSE OuterCatch(body, EmptyArr)

\* parsePermissions(html, short)
GPParsePermissions(html, short) ==
    LET body ==
            IF Len(PermissionsStructured(html, short).perms) < HeuristicThreshold
            THEN Arr(Fold(LAMBDA x, s : TextPhrase(x, s, short),
                          PermissionsStructured(html, short),
                          Caps(html, "permissionPhrases")).perms)
            ELSE Arr(PermissionsStructured(html, short).perms)
    IN IF HtmlGuard(html) THEN EmptyArr ELSE OuterCatch(body, EmptyArr)

(***************************************************************************)
(* parsers/googlePlay/suggest.js                                           *)
(***************************************************************************)
\* JSON.parse(s) on the strings of the model; a page of markup is no JSON.
JsonParse(s) ==
    CASE s = "[\"maps\"]" -> Arr(<<Str("maps")>>)
      [] s = "null" -> NULL
      [] OTHER -> BadJson

\* One item of a top-level array; THROWN for a null item (item.suggestion).
ArrayItem(item) ==
    IF IsString(item) THEN Arr(<<Obj([term |-> item])>>)
    ELSE IF Nullish(item) THEN THROWN
    ELSE IF Truthy(OrChain(item, <<"suggestion", "term", "q">>, UNDEF))
         THEN Arr(<<Obj([term |-> OrChain(item, <<"suggestion", "term", "q">>, UNDEF),
                         priority |-> Or(Get(item, "priority"), Num(0))])>>)
         ELSE EmptyArr

\* One item of jsonData.suggestions or jsonData.data.
ListItem(item) ==
    IF Nullish(item) THEN THROWN
    ELSE Arr(<<Obj([term |-> OrChain(item, <<"suggestion", "term", "q">>, item),
                    priority |-> Or(Get(item, "priority"), Num(0))])>>)

\* xs.forEach(item => suggestions.push(...f(item))), or THROWN
RECURSIVE Collect(_, _)
Collect(f(_), xs) ==
    IF xs = <<>> THEN EmptyArr
    ELSE IF f(Head(xs)) = THROWN THEN THROWN
    ELSE IF Collect(f, Tail(xs)) = THROWN THEN THROWN
    ELSE Arr(f(Head(xs)).a \o Collect(f, Tail(xs)).a)

\* The suggestions read off the parsed value j, before the sort.
Suggestions(j) ==
    IF Nullish(j) THEN THROWN
    ELSE IF IsArray(j) THEN Collect(ArrayItem, j.a)
    ELSE IF Truthy(Get(j, "suggestions")) \/ Truthy(Get(j, "data"))
         THEN IF IsArray(Or(Get(j, "suggestions"), Get(j, "data")))
              THEN Collect(ListItem, Or(Get(j, "suggestions"), Get(j, "data")).a)
              ELSE THROWN
    ELSE IF Truthy(Get(j, "q"))
         THEN Arr(<<Obj([term |-> Get(j, "q"),
                         priority |-> Or(Get(j, "priority"), Num(0))])>>)
    ELSE EmptyArr

\* parseSuggest(data) of Google Play: data is the parsed JSON or a string.
GPParseSuggest(data) ==
    LET j == IF IsString(data) THEN JsonParse(data.s) ELSE data
        body == IF j = BadJson \/ Suggestions(j) = THROWN THEN THROWN
                ELSE Arr(SortByPriority(Suggestions(j).a))
    IN IF ~Truthy(data) THEN EmptyArr ELSE OuterCatch(body, EmptyArr)

(***************************************************************************)
(* parsers/appStore/similar.js                                             *)
(***************************************************************************)
\* apps.forEach of one JSON-LD script: url.match throws for a url that is
\* truthy and no string, the pushes made so far stay.
RECURSIVE GraphApps(_, _)
GraphApps(acc, apps) ==
    IF apps = <<>> THEN acc
    ELSE IF ~Truthy(Get(Head(apps), "url")) THEN GraphApps(acc, Tail(apps))
    ELSE IF ~IsString(Get(Head(apps), "url")) THEN acc
    ELSE GraphApps(
            Append(acc,
                   Obj([id |-> IF UriId(Get(Head(apps), "url").s) = "" THEN NULL
                               ELSE Str(UriId(Get(Head(apps), "url").s)),
                        appId |-> NULL,
                        title |-> Or(Get(Head(apps), "name"), NULL),
                        url |-> Get(Head(apps), "url")])),
            Tail(apps))

\* One JSON-LD script of the page: a payload that is no JSON, a null
\* payload, an @graph that is no array or has a null item all throw into the
\* script's catch before anything is pushed; the apps are
\* jsonLd['@graph'].filter(item => item['@type'] === 'SoftwareApplication').
GraphScript(acc, p) ==
    IF p = BadJson \/ Nullish(p) THEN acc
    ELSE IF ~Truthy(Get(p, "@graph")) THEN acc
    ELSE IF ~IsArray(Get(p, "@graph")) THEN acc
    ELSE IF \E i \in 1..Len(Get(p, "@graph").a) : Nullish(Get(p, "@graph").a[i])
         THEN acc
         ELSE GraphApps(acc,
                        SelectSeq(Get(p, "@graph").a,
                                  LAMBDA item :
                                      Get(item, "@type") = Str("SoftwareApplication")))

\* The app links of the page, each id once (seenIds).
RECURSIVE StoreLinks(_, _, _)
StoreLinks(acc, seen, ids) ==
    IF ids = <<>> THEN acc
    ELSE IF Head(ids) \in seen THEN StoreLinks(acc, seen, Tail(ids))
    ELSE StoreLinks(
            Append(acc,
                   Obj([id |-> ParseInt(Str(Head(ids))),
                        appId |-> NULL,
                        title |-> NULL,
                        url |-> Str("https://apps.apple.com/app/id" \o Head(ids))])),
            seen \cup {Head(ids)}, Tail(ids))

\* parseSimilarFromHTML(html): no guard; html.matchAll of a value that is no
\* string throws before anything is pushed, and the catch falls through to
\* `return similarApps`.
ASParseSimilarFromHTML(html) ==
    LET body == IF ~IsString(html) THEN THROWN
                ELSE Arr(StoreLinks(Fold(GraphScript, <<>>, Caps(html, "ld")),
                                    NewSet(left.ids),
                                    Caps(html, "storeIds")))
    IN OuterCatch(body, EmptyArr)
VARIABLES
    pc,          \* "idle", "attempt", "sleep", "body", "done"
    tool,        \* name of the request in progress
    args,        \* its arguments
    retries,     \* the retries parameter of the running fetchWithRetry
    timers,      \* armed abort timers (setTimeout not yet cleared or fired)
    outcome,     \* how the last attempt ended
    attempts,    \* HTTP attempts issued by this call
    delay,       \* the last backoff sleep of this call, 0 if none
    prevDelay,   \* the backoff sleep before that, 0 if none
    parserCalls, \* parser invocations of this call
    fetched,     \* "none", "ok" (fetchJSON/fetchText returned), "failed"
    result,      \* what the handler's promise settled with
    fn,          \* the parser applied to doc, "none" before the call
    doc,         \* the document handed to a parser
    short,       \* the second argument of parsePermissions
    out          \* what the parser returned, THROWN if it threw

hvars == <<pc, tool, args, retries, timers, outcome, attempts, delay, prevDelay,
           parserCalls, fetched, result>>

pvars == <<fn, doc, short, out, left, first, calls, inflight>>

vars == <<hvars, pvars>>

\* No request in progress.
HandlerIdle ==
    /\ pc = "idle"
    /\ tool = "none"
    /\ args = NoArgs
    /\ retries = MAX_RETRIES
    /\ timers = 0
    /\ outcome = NoOutcome
    /\ attempts = 0
    /\ delay = 0
    /\ prevDelay = 0
    /\ parserCalls = 0
    /\ fetched = "none"
    /\ result = NoResult

\* No parser has been called.
NoCall == [f |-> "none"]

NothingLeft == [reviews |-> {}, permissions |-> {}, ids |-> {}]

\* The requests that may be in flight together.
Callers == {"a", "b"}

\* No request has arrived.
NoneInFlight ==
    [frame |-> [c \in Callers |->
                    [pc |-> "idle", tool |-> "none", retries |-> MAX_RETRIES,
                     attempts |-> 0, timeoutId |-> <<>>, hist |-> <<>>,
                     body |-> <<>>, result |-> NoResult]],
     armed |-> {}]

Init ==
    /\ HandlerIdle
    /\ fn = "none"
    /\ doc = UNDEF
    /\ short = FALSE
    /\ out = UNDEF
    /\ left = NothingLeft
    /\ first = NoCall
    /\ calls = 0
    /\ inflight = NoneInFlight

Finish(r) ==
    /\ pc' = "done"
    /\ result' = r

\* A CallTool request arrives: the switch, the handler's destructuring, its
\* check and the URL builder run to the first await, the fetch of attempt 1.
CallTool(name, a) ==
    /\ pc = "idle"
    /\ tool' = name
    /\ args' = a
    /\ IF name \notin DispatchedTools
       THEN /\ Finish(UnknownTool)
            /\ UNCHANGED <<retries, timers, attempts>>
       ELSE IF DestructuresArgs(name) /\ a = NoArgs
       THEN /\ Finish(Raise(name, "args"))
            /\ UNCHANGED <<retries, timers, attempts>>
       ELSE IF RequiredMissing(name, a)
       THEN /\ Finish(Raise(name, "validate"))
            /\ UNCHANGED <<retries, timers, attempts>>
       ELSE IF BuilderThrows(name, a)
       THEN /\ Finish(Raise(name, "build"))
            /\ UNCHANGED <<retries, timers, attempts>>
       ELSE /\ pc' = "attempt"
            /\ retries' = MAX_RETRIES
            /\ timers' = timers + 1
            /\ attempts' = 1
            /\ UNCHANGED result
    /\ UNCHANGED <<outcome, delay, prevDelay, parserCalls, fetched>>
    /\ UNCHANGED pvars

\* An attempt that settles and leaves its timer armed.
ClearTimeout_Forgotten(armed) == armed

\* clearTimeout(timeoutId), first statement after `await fetch` and first
\* statement of the catch block: the attempt's timer is armed no more.
ClearTimeout(armed) == armed - 1

\* `await fetch` settles with outcome o; clearTimeout; return, sleep or throw.
\* The abort outcome is the timer firing, so it needs the timer armed.
AttemptSettles(o) ==
    /\ pc = "attempt"
    /\ o.kind = "abort" => timers > 0
    /\ outcome' = o
    /\ timers' = ClearTimeout(timers)
    /\ CASE OnSettle(o, retries) = "return" ->
              /\ pc' = "body"
              /\ UNCHANGED <<delay, prevDelay, fetched, result, parserCalls>>
         [] OnSettle(o, retries) = "retry" ->
              /\ pc' = "sleep"
              /\ delay' = BackoffDelay(retries)
              /\ prevDelay' = delay
              /\ UNCHANGED <<fetched, result, parserCalls>>
         [] OTHER ->
              /\ fetched' = "failed"
              /\ parserCalls' = parserCalls + FetchFailed(tool, "fetch").parsed
              /\ Finish(FetchFailed(tool, "fetch").result)
              /\ UNCHANGED <<delay, prevDelay>>
    /\ UNCHANGED <<tool, args, retries, attempts>>
    /\ UNCHANGED pvars

\* The sleep timer fires: fetchWithRetry(url, options, retries - 1) arms a new
\* abort timer and issues the next attempt.
SleepDone ==
    /\ pc = "sleep"
    /\ pc' = "attempt"
    /\ retries' = NextRetries(retries)
    /\ timers' = timers + 1
    /\ attempts' = IF attempts < AttemptsCap THEN attempts + 1 ELSE attempts
    /\ UNCHANGED <<tool, args, outcome, delay, prevDelay, parserCalls, fetched, result>>
    /\ UNCHANGED pvars

\* `await response.text()` settles; fetchJSON parses the text; the handler
\* runs its parser and builds the result.
\*   b = "bodyerr"  response.text() rejected
\*   b = "badjson"  JSON.parse threw (fetchJSON only)
\*   b = "doc"      a document was handed to the parser, which ended in p
BodyRead(b, p) ==
    /\ pc = "body"
    /\ b = "badjson" => UsesFetchJSON(tool)
    /\ p \in ParseOutcomes(tool)
    /\ b # "doc" => p = "value"
    /\ IF b = "bodyerr"
       THEN /\ fetched' = "failed"
            /\ parserCalls' = parserCalls + FetchFailed(tool, "body").parsed
            /\ Finish(FetchFailed(tool, "body").result)
       ELSE IF b = "badjson"
       THEN /\ fetched' = "failed"
            /\ parserCalls' = parserCalls + FetchFailed(tool, "json").parsed
            /\ Finish(FetchFailed(tool, "json").result)
       ELSE /\ fetched' = "ok"
            /\ parserCalls' = parserCalls + Parsed(tool, p).parsed
            /\ Finish(Parsed(tool, p).result)
    /\ UNCHANGED <<tool, args, retries, timers, outcome, attempts, delay, prevDelay>>
    /\ UNCHANGED pvars

\* The result has been delivered; the server is ready for the next request.
Return ==
    /\ pc = "done"
    /\ pc' = "idle"
    /\ tool' = "none"
    /\ args' = NoArgs
    /\ retries' = MAX_RETRIES
    /\ timers' = 0
    /\ outcome' = NoOutcome
    /\ attempts' = 0
    /\ delay' = 0
    /\ prevDelay' = 0
    /\ parserCalls' = 0
    /\ fetched' = "none"
    /\ result' = NoResult
    /\ UNCHANGED pvars

Next ==
    \/ \E name \in RequestNames, a \in ArgValues : CallTool(name, a)
    \/ \E o \in Outcomes : AttemptSettles(o)
    \/ SleepDone
    \/ \E b \in {"bodyerr", "badjson", "doc"}, p \in {"value", "empty", "throw"} :
          BodyRead(b, p)
    \/ Return

Spec == Init /\ [][Next]_vars

\* The event loop runs every continuation that is ready: a pending fetch
\* settles (at the latest by its abort timer), a sleep timer fires, a body
\* read completes.  Nothing makes a client send requests.
SpecFair ==
    /\ Spec
    /\ WF_vars(\E o \in Outcomes : AttemptSettles(o))
    /\ WF_vars(SleepDone)
    /\ WF_vars(\E b \in {"bodyerr", "badjson", "doc"},
                  p \in {"value", "empty", "throw"} : BodyRead(b, p))

(***************************************************************************)
(* Documents: the JSON values and the pages the parsers are applied to     *)
(***************************************************************************)
\* Longest list of entries, scripts, links or blocks in a document.
MaxItems == 2

SeqsUpTo(S, n) == UNION {[1..k -> S] : k \in 0..n}

\* A field the document does not have.
Missing == [t |-> "missing"]

\* The object with the fields of f that are not Missing.
Fields(f) == Obj([k \in {x \in DOMAIN f : f[x] # Missing} |-> f[k]])

\* The values the App Store side parsers (and parseSuggest of Google Play)
\* are applied to: what JSON.parse can return, well-formed or not.
JsonDocs ==
    LET
        Scalars == {NULL, Num(0), Num(7), Bool(TRUE), Bool(FALSE), EmptyArr, EmptyObj,
                    Str(""), Str("ab"), Str("null"), Str("[\"maps\"]")}

        \* iTunes lookup / search responses.
        LookupApps ==
            {Fields([trackId |-> Num(1), price |-> p, kind |-> k]) :
                p \in {Missing, NULL, Num(0), Num(2), Str("0")},
                k \in {Missing, Str("software")}}

        LookupDocs ==
            {Fields([results |-> r, resultCount |-> c]) :
                r \in {Missing, NULL, Num(7), Str("ab"), EmptyObj}
                      \cup {Arr(s) : s \in SeqsUpTo(LookupApps \cup {NULL, Str("ab")}, MaxItems)},
                c \in {Missing, Num(9)}}

        \* Lookup responses for one app with its identifying fields.
        NamedApps ==
            {Obj([results |-> Arr(<<Fields([trackId |-> t, bundleId |-> Str("com.x"),
                                            trackName |-> n, price |-> p])>>)]) :
                t \in {Num(123), Num(0)},
                n \in {Str("X"), Missing},
                p \in {Num(0), Num(2)}}

        \* RSS feeds: top lists and customer reviews.
        FeedEntries ==
            {NULL,
             Str("ab"),
             Obj([id |-> Obj([label |-> Str("e1")]),
                  author |-> Obj([name |-> Obj([label |-> Str("Ann")]),
                                  uri |-> Obj([label |->
                                      Str("https://itunes.apple.com/us/reviews/id42")])])]
                 @@ ("im:rating" :> Obj([label |-> Str("5")]))
                 @@ ("im:price" :> Obj([label |-> Str("Free")]))),
             Obj([title |-> Obj([label |-> Str("Paid")])]
                 @@ ("im:rating" :> Obj([label |-> Str("abc")]))
                 @@ ("im:price" :> Obj([label |-> Str("$2.00")]))),
             Obj([author |-> Obj([uri |-> Num(5)])]),
             Obj("im:price" :> Num(5)),
             Obj("im:rating" :> Obj([label |-> Str("9")]))}

        FeedDocs ==
            {Obj([feed |-> f]) :
                f \in {NULL, Str("ab"), EmptyObj}
                      \cup {Obj([entry |-> e]) :
                              e \in {NULL, Str("ab"), EmptyObj}
                                    \cup {Arr(s) : s \in SeqsUpTo(FeedEntries, MaxItems)}}}

        \* Search hints, suggestion lists, version histories.
        Hints ==
            {NULL,
             Str("maps"),
             Obj([term |-> Str("a"), priority |-> Num(2)]),
             Obj([term |-> Str("b"), priority |-> Num(5)]),
             Obj([q |-> Str("c")]),
             Obj([version |-> Str("1.0"), releaseNotes |-> Str("fixes")])}

        HintLists == {Arr(s) : s \in SeqsUpTo(Hints, MaxItems)}

        HintDocs ==
            HintLists
            \cup {Obj([hints |-> h]) : h \in HintLists \cup {NULL, Str("ab"), EmptyObj}}
            \cup {Obj([suggestions |-> h]) : h \in HintLists \cup {Str("ab")}}
            \cup {Obj([q |-> Str("c"), priority |-> Num(1)])}

        \* Privacy details and app data with ratings.
        PrivacyDocs ==
            {Fields([privacyTypes |-> p, rating |-> r]) :
                p \in {Missing, NULL, Num(7), Str("ab"), EmptyObj, Arr(<<NULL>>),
                       Arr(<<Obj([privacyType |-> Str("Data Linked to You")])>>),
                       Arr(<<Obj([dataCategories |-> Str("ab")])>>),
                       Arr(<<Obj([dataCategories |-> Arr(<<NULL>>)])>>),
                       Arr(<<Obj([dataCategories |->
                                    Arr(<<Obj([dataCategory |-> Str("Location")])>>)])>>)},
                r \in {Missing, NULL, Num(0),
                       Obj([count |-> Num(5), average |-> Num(4)]),
                       Obj([count |-> Num(0)])}}
    IN Scalars \cup LookupDocs \cup NamedApps \cup FeedDocs \cup HintDocs
       \cup PrivacyDocs

\* The pages the HTML-side parsers are applied to.
HtmlDocs ==
    LET
        \* Google Play app pages.
        AppPages ==
            {Html([price |-> p, docid |-> d, title |-> t, icon |-> i,
                   description |-> x, ld |-> l]) :
                p \in {NoMatch, "Free", "FREE", " Free ", "0", " ", "$2.00", "0.00"},
                d \in {NoMatch, "com.x"},
                t \in {NoMatch, "X"},
                i \in {NoMatch, "https://x.example/og.png"},
                x \in {NoMatch, "Visible text"},
                l \in {<<>>, <<BadJson>>, <<NULL>>,
                       <<Obj([name |-> Str("Ld X")]
                             @@ ("@type" :> Str("SoftwareApplication")))>>,
                       <<Obj([name |-> Str("Ld X"),
                              image |-> Str("https://x.example/ld.png"),
                              description |-> Str("Ld text")]
                             @@ ("@type" :> Str("SoftwareApplication")))>>,
                       <<Obj([description |-> Num(7)]
                             @@ ("@type" :> Str("SoftwareApplication")))>>}}
            \cup {Html([docid |-> "com.x", title |-> "X", developer |-> "Dev",
                        developerId |-> "dev1", rating |-> r, ratingCount |-> "42",
                        version |-> "1.0", contentRating |-> "Everyone",
                        adSupported |-> "Contains Ads", screenshots |-> <<"s1.png">>,
                        category |-> "TOOLS", size |-> "5", androidVersion |-> "9",
                        updated |-> "2024-01-01", installs |-> "42"]) :
                    r \in {"5", "abc"}}

        \* Google Play review pages: JSON-LD scripts, embedded arrays, markup blocks.
        LdReviews ==
            {BadJson,
             NULL,
             Obj([reviewBody |-> Str("Great")]
                 @@ ("@type" :> Str("Review")) @@ ("@id" :> Str("r1"))),
             Obj([reviewRating |-> Obj([ratingValue |-> Num(4)])]
                 @@ ("@type" :> Str("Review")) @@ ("@id" :> Str("r1"))),
             Obj([author |-> Str("Ann"), datePublished |-> Str("2024-01-01"),
                  ratingValue |-> Num(4)] @@ ("@type" :> Str("Review"))),
             Obj([author |-> Str("Bob"), datePublished |-> Str("2024-02-02"),
                  ratingValue |-> Num(2)] @@ ("@type" :> Str("Review"))),
             Obj([itemListElement |->
                    Arr(<<Obj([reviewBody |-> Str("Nice"), author |-> Str("Bob")]), NULL,
                          Obj([reviewBody |-> Str("Late")])>>)]
                 @@ ("@type" :> Str("ItemList")))}

        \* A block is what the patterns capture in the content of one review
        \* element; attr is the data-review-id of the element's own opening
        \* tag, which is outside the content.
        ReviewBlocks ==
            {[attr |-> "r1", id |-> "r1", text |-> NoMatch, author |-> "Ann",
              date |-> "2024-01-01", rating |-> 5],
             [attr |-> "r1", id |-> "r1", text |-> NoMatch, author |-> "ann",
              date |-> "2024-01-01", rating |-> 5],
             [attr |-> "r1", id |-> NoMatch, text |-> NoMatch, author |-> "Ann",
              date |-> "2024-01-01", rating |-> 5],
             [attr |-> "r1", id |-> NoMatch, text |-> NoMatch, author |-> "ann",
              date |-> "2024-01-01", rating |-> 5],
             [attr |-> "r2", id |-> NoMatch, text |-> NoMatch, author |-> "Ann",
              date |-> "2024-01-01", rating |-> 4],
             [attr |-> NoMatch, id |-> NoMatch, text |-> "Great", author |-> NoMatch,
              date |-> NoMatch, rating |-> 3],
             [attr |-> NoMatch, id |-> NoMatch, text |-> NoMatch, author |-> "Ann",
              date |-> NoMatch, rating |-> 0],
             [attr |-> NoMatch, id |-> NoMatch, text |-> NoMatch, author |-> NoMatch,
              date |-> NoMatch, rating |-> 0]}

        ReviewPages ==
            {Html([ld |-> l, scripts |-> <<>>, blocks |-> b, token |-> NoMatch]) :
                l \in SeqsUpTo(LdReviews, MaxItems), b \in SeqsUpTo(ReviewBlocks, 1)}
            \cup {Html([ld |-> l, scripts |-> <<>>, blocks |-> b, token |-> NoMatch]) :
                    l \in SeqsUpTo(LdReviews, 1), b \in SeqsUpTo(ReviewBlocks, MaxItems)}
            \cup {Html([ld |-> <<>>, scripts |-> s, blocks |-> b, token |-> "tok"]) :
                    s \in {<<BadJson>>,
                           <<Arr(<<Obj([reviewId |-> Str("r1"), comment |-> Str("Good"),
                                        rating |-> Num(2)]),
                                   NULL, Str("ab")>>)>>,
                           <<Arr(<<Obj([reviewId |-> Str("r9"), rating |-> Num(9),
                                        helpful |-> Num(0 - 1)])>>)>>},
                    b \in SeqsUpTo(ReviewBlocks, 1)}

        \* Google Play search, list and similar-apps pages.
        AppLinks == {[id |-> "com.x", title |-> "X"], [id |-> "com.y", title |-> NoMatch]}

        LinkPages ==
            {Html([scriptIds |-> s, links |-> l, similarLinks |-> l, similarIds |-> s]) :
                s \in SeqsUpTo({"com.x", "com.y"}, MaxItems),
                l \in SeqsUpTo(AppLinks, MaxItems)}

        \* Google Play category pages.
        CategoryPages ==
            {Html([categoryLinks |-> l, categoryNames |-> n]) :
                l \in SeqsUpTo({"TOOLS", "GAME", "BOOKS"}, MaxItems),
                n \in {<<>>, <<"GAME", "BOOKS">>}}

        \* Google Play data-safety pages.
        SafetyPages ==
            {Html([policy |-> p, ld |-> l, safetyScripts |-> s, section |-> x]) :
                p \in {NoMatch, "https://x.example/privacy"},
                l \in {<<>>, <<BadJson>>, <<NULL>>,
                       <<Obj([dataSafety |-> Obj([dataShared |-> Arr(<<Str("Location")>>),
                                                  dataCollected |-> Str("ab")])])>>},
                s \in {<<>>, <<BadJson>>, <<Obj([dataCollected |-> Arr(<<Str("Email")>>)])>>},
                x \in {NoMatch, "", "<span>Location</span>"}}

        \* Google Play permission pages.
        PermissionItems ==
            {[name |-> "CAMERA", type |-> "Hardware"], [name |-> "Camera", type |-> ""],
             [name |-> NoMatch, type |-> ""]}

        PermissionArrays ==
            {[quoted |-> <<"Location">>, json |-> Arr(<<Str("Location")>>)],
             [quoted |-> <<"name", "Camera">>, json |-> Arr(<<Obj([name |-> Str("Camera")])>>)],
             [quoted |-> <<"Contacts", "name", "Storage">>,
              json |-> Arr(<<Str("Contacts"), Obj([name |-> Num(5)]), Str("Storage")>>)],
             [quoted |-> <<"Location">>, json |-> BadJson],
             [quoted |-> <<>>, json |-> Arr(<<Str("")>>)]}

        PermissionPages ==
            {Html([permissionItems |-> i, permissionArrays |-> a, permissionMeta |-> m,
                   permissionPhrases |-> p]) :
                i \in SeqsUpTo(PermissionItems, MaxItems),
                a \in SeqsUpTo(PermissionArrays, 1),
                m \in {<<>>, <<"Location">>},
                p \in {<<>>, <<"your contacts", "gps">>}}

        \* App Store product pages.
        GraphApp ==
            Obj([url |-> Str("https://apps.apple.com/us/app/id42"), name |-> Str("X")]
                @@ ("@type" :> Str("SoftwareApplication")))

        StorePages ==
            {Html([ld |-> l, storeIds |-> s]) :
                l \in {<<>>, <<BadJson>>, <<NULL>>,
                       <<Obj("@graph" :> Str("ab"))>>,
                       <<Obj("@graph" :> Arr(<<GraphApp, NULL>>))>>,
                       <<Obj("@graph" :> Arr(<<GraphApp, Str("ab"),
                                               Obj([url |-> Num(5)]
                                                   @@ ("@type" :> Str("SoftwareApplication"))),
                                               GraphApp>>))>>},
                s \in SeqsUpTo({"42", "7"}, MaxItems)}
    IN AppPages \cup ReviewPages \cup LinkPages \cup CategoryPages
       \cup SafetyPages \cup PermissionPages \cup StorePages

Docs == JsonDocs \cup HtmlDocs

(***************************************************************************)
(* SpecParse: every parser applied to every document                       *)
(***************************************************************************)
JsonParsers ==
    {"appStore.parseApp", "appStore.parseApps", "appStore.parseSearch",
     "appStore.parseList", "appStore.parseReviews", "appStore.parsePrivacy",
     "appStore.parseVersionHistory", "appStore.parseSuggest",
     "appStore.parseRatings"}

HtmlParsers ==
    {"googlePlay.parseApp", "googlePlay.parseSearch", "googlePlay.parseList",
     "googlePlay.parseReviews", "googlePlay.parseSimilar",
     "googlePlay.parsePermissions", "googlePlay.parseDataSafety",
     "googlePlay.parseCategories", "googlePlay.parseSuggest",
     "appStore.parseSimilarFromHTML"}

\* What parser f returns for the document d (and the flag s).
Result(f, d, s) ==
    CASE f = "appStore.parseApp" -> ASParseApp(d)
      [] f = "appStore.parseApps" -> ASParseApps(d)
      [] f = "appStore.parseSearch" -> ASParseSearch(d)
      [] f = "appStore.parseList" -> ASParseList(d)
      [] f = "appStore.parseReviews" -> ASParseReviews(d)
      [] f = "appStore.parsePrivacy" -> ASParsePrivacy(d)
      [] f = "appStore.parseVersionHistory" -> ASParseVersionHistory(d)
      [] f = "appStore.parseSuggest" -> ASParseSuggest(d)
      [] f = "appStore.parseRatings" -> ASParseRatings(d)
      [] f = "appStore.parseSimilarFromHTML" -> ASParseSimilarFromHTML(d)
      [] f = "googlePlay.parseApp" -> GPParseApp(d)
      [] f = "googlePlay.parseSearch" -> GPParseSearch(d)
      [] f = "googlePlay.parseList" -> GPParseList(d)
      [] f = "googlePlay.parseReviews" -> GPParseReviews(d)
      [] f = "googlePlay.parseSimilar" -> GPParseSimilar(d)
      [] f = "googlePlay.parsePermissions" -> GPParsePermissions(d, s)
      [] f = "googlePlay.parseDataSafety" -> GPParseDataSafety(d)
      [] f = "googlePlay.parseCategories" -> GPParseCategories(d)
      [] f = "googlePlay.parseSuggest" -> GPParseSuggest(d)

ParseInit ==
    /\ HandlerIdle
    /\ fn = "none"
    /\ doc \in Docs
    /\ short = FALSE
    /\ out = UNDEF
    /\ left = NothingLeft
    /\ first = NoCall
    /\ calls = 0
    /\ inflight = NoneInFlight

\* A parser of the App Store side is called with the document.
CallJsonParser(f) ==
    /\ fn = "none"
    /\ fn' = f
    /\ out' = Result(f, doc, short)
    /\ UNCHANGED <<doc, short, left, first, calls, inflight>>
    /\ UNCHANGED hvars

\* A parser of the HTML side is called with the document.
CallHtmlParser(f) ==
    /\ fn = "none"
    /\ f # "googlePlay.parsePermissions"
    /\ fn' = f
    /\ out' = Result(f, doc, short)
    /\ UNCHANGED <<doc, short, left, first, calls, inflight>>
    /\ UNCHANGED hvars

\* parsePermissions(html, s)
CallParsePermissions(s) ==
    /\ fn = "none"
    /\ fn' = "googlePlay.parsePermissions"
    /\ short' = s
    /\ out' = Result("googlePlay.parsePermissions", doc, s)
    /\ UNCHANGED <<doc, left, first, calls, inflight>>
    /\ UNCHANGED hvars

ParseNext ==
    \/ \E f \in JsonParsers : CallJsonParser(f)
    \/ \E f \in HtmlParsers : CallHtmlParser(f)
    \/ \E s \in BOOLEAN : CallParsePermissions(s)

SpecParse == ParseInit /\ [][ParseNext]_vars

(***************************************************************************)
(* SpecRepeat: parsers called one after another in one process             *)
(***************************************************************************)
\* Parser calls in one run.
MaxCalls == 3

\* The input as the call leaves it.  The only in-place operations of the
\* parsers are the three sort() calls, each on an array the call built
\* (data.hints.map(...), suggestions, categories): the input is not written.
InputAfter(f, d) == d

\* The dedup sets as the call of f on d that returned r leaves them:
\* seenReviewIds, seenPermissions (the lower-case names of the permissions
\* pushed) and seenIds.
LeftBy(f, d, r) ==
    CASE f = "googlePlay.parseReviews" /\ ~HtmlGuard(d) ->
            [left EXCEPT !.reviews = ReviewsFound(d).seen]
      [] f = "googlePlay.parsePermissions" /\ ~HtmlGuard(d) ->
            [left EXCEPT !.permissions =
                {Lower(IF IsString(r.a[i]) THEN r.a[i].s
                       ELSE Get(r.a[i], "permission").s) : i \in 1..Len(r.a)}]
      [] f = "appStore.parseSimilarFromHTML" /\ IsString(d) ->
            [left EXCEPT !.ids =
                {Caps(d, "storeIds")[i] : i \in 1..Len(Caps(d, "storeIds"))}]
      [] OTHER -> left

\* Parser f is called on d (with the flag s), whatever was called before.
CallAgain(f, d, s) ==
    /\ calls < MaxCalls
    /\ calls' = calls + 1
    /\ fn' = f
    /\ short' = s
    /\ doc' = InputAfter(f, d)
    /\ out' = Result(f, d, s)
    /\ left' = LeftBy(f, d, Result(f, d, s))
    /\ UNCHANGED inflight
    /\ first' = IF first = NoCall
                THEN [f |-> f, d |-> d, s |-> s, r |-> Result(f, d, s),
                      after |-> InputAfter(f, d)]
                ELSE first
    /\ UNCHANGED hvars

RepeatNext ==
    LET block(id, author) ==
            [attr |-> "r1", id |-> id, text |-> NoMatch, author |-> author,
             date |-> "2024-01-01", rating |-> 5]
        pages ==
            {Html([ld |-> <<Obj([reviewBody |-> Str("Great")]
                                @@ ("@type" :> Str("Review"))
                                @@ ("@id" :> Str("r1")))>>,
                   scripts |-> <<>>,
                   blocks |-> <<block("r1", "Ann"), block(NoMatch, "ann")>>,
                   token |-> "tok"]),
             Html([permissionItems |-> <<[name |-> "CAMERA", type |-> "Hardware"],
                                         [name |-> "Camera", type |-> ""]>>,
                   permissionArrays |-> <<>>, permissionMeta |-> <<"Location">>,
                   permissionPhrases |-> <<>>]),
             Html([ld |-> <<>>, storeIds |-> <<"42", "7", "42">>]),
             Html([categoryLinks |-> <<"TOOLS", "GAME", "TOOLS">>,
                   categoryNames |-> <<>>])}
        values ==
            {Obj([results |-> Arr(<<Obj([trackId |-> Num(1), price |-> Num(0),
                                         kind |-> Str("software")])>>)]),
             Obj([hints |-> Arr(<<Obj([term |-> Str("a"), priority |-> Num(2)]),
                                  Obj([term |-> Str("b"), priority |-> Num(5)])>>)]),
             NULL}
    IN \/ \E f \in JsonParsers \ {"appStore.parseSearch"}, d \in values :
            CallAgain(f, d, FALSE)
       \/ \E f \in HtmlParsers, d \in pages : CallAgain(f, d, FALSE)
       \/ \E d \in pages : CallAgain("googlePlay.parsePermissions", d, TRUE)

SpecRepeat == Init /\ [][RepeatNext]_vars

(***************************************************************************)
(* SpecInFlight: tool calls running at once                                *)
(***************************************************************************)
\* Fetch attempts of one call in a run.
MaxParAttempts == 4

\* One counter for all calls, MAX_RETRIES less every retry made so far.
RetriesLeft_Shared(c) ==
    LET retried(d) == IF inflight.frame[d].attempts = 0 THEN 0
                      ELSE inflight.frame[d].attempts - 1
        RECURSIVE sum(_)
        sum(S) == IF S = {} THEN 0
                  ELSE LET d == CHOOSE x \in S : TRUE IN retried(d) + sum(S \ {d})
    IN MAX_RETRIES - sum(Callers)

\* `retries` of the fetchWithRetry frame call c is in: a parameter, set by
\* the default MAX_RETRIES and by `retries - 1` of the recursive call.
RetriesLeft(c) == inflight.frame[c].retries

\* const timeoutId = setTimeout(...): a timer of this frame only.
NewTimer(c, n) == <<c, n>>

\* A CallTool request arrives while others may be in flight; its handler
\* runs to the first await, the fetch of attempt 1.
ArriveInFlight(c, name) ==
    /\ inflight.frame[c].pc = "idle"
    /\ inflight' =
          [frame |-> [inflight.frame EXCEPT ![c] =
                        [@ EXCEPT !.pc = "attempt", !.tool = name,
                                  !.retries = MAX_RETRIES, !.attempts = 1,
                                  !.timeoutId = NewTimer(c, 1)]],
           armed |-> inflight.armed \cup {NewTimer(c, 1)}]
    /\ UNCHANGED <<fn, doc, short, out, left, first, calls>>
    /\ UNCHANGED hvars

\* `await fetch` of call c settles with outcome o; clearTimeout(timeoutId);
\* return, sleep or throw.
SettleInFlight(c, o) ==
    LET f == inflight.frame[c]
        d == OnSettle(o, RetriesLeft(c))
    IN /\ f.pc = "attempt"
       /\ o.kind = "abort" => f.timeoutId \in inflight.armed
       /\ d = "retry" => f.attempts < MaxParAttempts
       /\ inflight' =
             [frame |-> [inflight.frame EXCEPT ![c] =
                           [@ EXCEPT !.hist = Append(@, o),
                                     !.pc = CASE d = "return" -> "body"
                                              [] d = "retry" -> "sleep"
                                              [] OTHER -> "done",
                                     !.result = IF d \in {"return", "retry"} THEN @
                                                ELSE FetchFailed(f.tool, "fetch").result]],
              armed |-> inflight.armed \ {f.timeoutId}]
       /\ UNCHANGED <<fn, doc, short, out, left, first, calls>>
       /\ UNCHANGED hvars

\* The sleep of call c ends: fetchWithRetry(url, options, retries - 1).
WakeInFlight(c) ==
    LET f == inflight.frame[c]
    IN /\ f.pc = "sleep"
       /\ inflight' =
             [frame |-> [inflight.frame EXCEPT ![c] =
                           [@ EXCEPT !.pc = "attempt",
                                     !.retries = NextRetries(f.retries),
                                     !.attempts = f.attempts + 1,
                                     !.timeoutId = NewTimer(c, f.attempts + 1)]],
              armed |-> inflight.armed \cup {NewTimer(c, f.attempts + 1)}]
       /\ UNCHANGED <<fn, doc, short, out, left, first, calls>>
       /\ UNCHANGED hvars

\* The body of call c's response is read and parsed, in one synchronous run
\* of the handler.
ReadInFlight(c, b, p) ==
    LET f == inflight.frame[c]
    IN /\ f.pc = "body"
       /\ b = "badjson" => UsesFetchJSON(f.tool)
       /\ p \in ParseOutcomes(f.tool)
       /\ b # "doc" => p = "value"
       /\ inflight' =
             [inflight EXCEPT !.frame[c] =
                [@ EXCEPT !.pc = "done",
                          !.body = <<b, p>>,
                          !.result = CASE b = "bodyerr" -> FetchFailed(f.tool, "body").result
                                       [] b = "badjson" -> FetchFailed(f.tool, "json").result
                                       [] OTHER -> Parsed(f.tool, p).result]]
       /\ UNCHANGED <<fn, doc, short, out, left, first, calls>>
       /\ UNCHANGED hvars

InFlightNext ==
    LET outcomes == {[kind |-> "ok", hasFetch |-> FALSE],
                     [kind |-> "abort", hasFetch |-> FALSE],
                     [kind |-> "http5xx", hasFetch |-> FALSE],
                     [kind |-> "neterr", hasFetch |-> FALSE]}
    IN \E c \in Callers :
          \/ \E name \in {"app", "gp_permissions"} : ArriveInFlight(c, name)
          \/ \E o \in outcomes : SettleInFlight(c, o)
          \/ WakeInFlight(c)
          \/ \E b \in {"bodyerr", "badjson", "doc"}, p \in {"value", "empty", "throw"} :
                ReadInFlight(c, b, p)

SpecInFlight == Init /\ [][InFlightNext]_vars

(***************************************************************************)
(* Claims about fetchWithRetry and the tool handlers (Spec, SpecFair)      *)
(***************************************************************************)

\* C2 (as claimed): one fetchJSON/fetchText call issues at most 3 HTTP
\* attempts in total, whatever the attempts' outcomes.
C2_AtMostThreeAttempts == attempts <= 3

\* C3 (as claimed): another attempt starts only after an attempt that ended
\* with a 5xx status or with status 429.
C3_RetryOnlyAfter5xxOr429 ==
    [][(pc = "sleep" /\ pc' = "attempt") => RetryableStatus(outcome)]_vars

\* C3 (amended): another attempt starts only after an attempt that ended with
\* a 5xx status, with status 429, with the timeout abort, or with an error
\* whose message contains 'fetch'; so an attempt that ends with a response
\* that is ok, or with any other status or error whose message lacks 'fetch',
\* is never followed by a retry.
C3_RetryCauses ==
    [][(pc = "sleep" /\ pc' = "attempt") =>
          \/ RetryableStatus(outcome)
          \/ outcome.kind = "abort"
          \/ outcome.hasFetch]_vars

\* C3 witness: a second attempt is in flight after a network error.
C3_Witness == pc = "attempt" /\ attempts = 2 /\ outcome.kind = "neterr"

\* C4 (as claimed): every call of fetchWithRetry eventually settles (returns
\* a response or throws), also when every attempt is aborted by the timeout.
C4_EventuallySettles == (pc = "attempt") ~> (pc \in {"body", "done"})

\* C5 (as claimed): the first backoff sleep is 1 s and each later one is
\* twice the one before it.
C5_DelayDoubles ==
    /\ (delay > 0 /\ prevDelay = 0) => delay = RETRY_DELAY
    /\ prevDelay > 0 => delay = 2 * prevDelay

\* C6: a tool handler never rejects.  Once it has settled it is resolved with
\* a content list of one text item; a missing argument object, a missing
\* required argument or a failed fetch gives isError with the error text, and
\* a result without isError means the fetch returned and the parser ran.
ArgsFailure(t, a) ==
    \/ DestructuresArgs(t) /\ a = NoArgs
    \/ a # NoArgs /\ RequiredMissing(t, a)

C6_HandlerResolves ==
    (pc = "done" /\ tool \in DispatchedTools) =>
        /\ result.state = "resolved"
        /\ result.items = 1
        /\ (ArgsFailure(tool, args) \/ fetched = "failed") =>
              (result.isError /\ result.text = "error")
        /\ result.isError <=> result.from # "none"
        /\ ~result.isError => (fetched = "ok" /\ parserCalls = 1)

\* C6 witness: a handler called without arguments has answered with isError.
C6_Witness ==
    /\ pc = "done"
    /\ tool = "search"
    /\ args = NoArgs
    /\ result.state = "resolved"
    /\ result.isError

\* C7: the parser runs only after the fetch of the call has returned; when
\* the fetch fails (HTTP error, network error, timeout, body error or
\* unparseable JSON) no parser runs and the handler's result is the error.
C7_ParserOnlyAfterFetch ==
    /\ parserCalls > 0 => fetched = "ok"
    /\ (pc = "done" /\ fetched = "failed") =>
          /\ parserCalls = 0
          /\ result.isError
          /\ result.from \in {"fetch", "body", "json"}

\* C7 witness: a call whose attempts were all answered 5xx has ended.
C7_Witness ==
    /\ pc = "done"
    /\ fetched = "failed"
    /\ outcome.kind = "http5xx"
    /\ attempts = MAX_RETRIES + 1
    /\ parserCalls = 0


(***************************************************************************)
(* Claims about the parsers (SpecParse)                                    *)
(***************************************************************************)
AppParsers ==
    {"appStore.parseApp", "appStore.parseApps", "appStore.parseList",
     "googlePlay.parseApp"}

\* The app records of a parser's result: the result itself, or its elements.
AppsIn(v) ==
    IF v.t = "array" THEN {v.a[i] : i \in 1..Len(v.a)}
    ELSE IF v.t = "object" THEN {v} ELSE {}

\* C1: every app record an app parser returns has free = true exactly when
\* its price is the number 0, whatever the price field of the input is.
C1_FreeIffPriceZero ==
    fn \in AppParsers =>
        \A r \in AppsIn(out) : Get(r, "free") = Bool(Get(r, "price") = Num(0))

\* C8: no App Store JSON parser throws, whatever JSON value it is given.
C8_JsonParsersNeverThrow == fn \in JsonParsers => out # THROWN

\* The empty result of an HTML-side parser.
EmptyOf(f) ==
    CASE f \in {"googlePlay.parseApp", "googlePlay.parseDataSafety"} -> NULL
      [] f = "googlePlay.parseReviews" -> EmptyReviews
      [] OTHER -> EmptyArr

\* null, a value that is no string, or the empty string
Unusable(d) == Nullish(d) \/ ~IsString(d) \/ d = Str("")

\* A script payload JSON.parse throws on, or one that is null.
Broken(p) == p = BadJson \/ p = NULL

\* The page d without its broken scripts.
Cleaned(d) ==
    IF "m" \notin DOMAIN d THEN d
    ELSE [d EXCEPT !.m =
            [k \in DOMAIN d.m |->
                IF k \in {"ld", "scripts", "safetyScripts"}
                THEN SelectSeq(d.m[k], LAMBDA p : ~Broken(p))
                ELSE IF k = "permissionArrays"
                THEN [i \in 1..Len(d.m[k]) |->
                        IF d.m[k][i].json = BadJson
                        THEN [d.m[k][i] EXCEPT !.json = EmptyArr]
                        ELSE d.m[k][i]]
                ELSE d.m[k]]]

\* No HTML-side parser throws, and a page with broken scripts gives the
\* empty result or what the page gives without them.
HtmlParsersDegrade ==
    fn \in HtmlParsers =>
        /\ out # THROWN
        /\ out \in {EmptyOf(fn), Result(fn, Cleaned(doc), short)}

\* C9 as stated: every HTML-side parser, parseSuggest among them, returns its
\* empty result for null, a non-string and the empty string, and never
\* throws: an exception inside a strategy ends in the empty result or in the
\* other strategies' records.
C9_EmptyForEveryNonString ==
    /\ HtmlParsersDegrade
    /\ (fn \in HtmlParsers /\ Unusable(doc)) => out = EmptyOf(fn)

\* C9 as the code has it: parseSuggest of Google Play takes the parsed JSON
\* value as well as a string, and returns its empty result for a falsy value
\* and for a string that is no JSON; every other HTML-side parser returns its
\* empty result for null, a non-string and the empty string; none throws.
C9_EmptyForNonStringButSuggest ==
    /\ HtmlParsersDegrade
    /\ (fn \in HtmlParsers \ {"googlePlay.parseSuggest"} /\ Unusable(doc))
          => out = EmptyOf(fn)
    /\ (/\ fn = "googlePlay.parseSuggest"
        /\ \/ ~Truthy(doc)
           \/ IsString(doc) /\ JsonParse(doc.s) = BadJson)
          => out = EmptyArr

\* The non-global matchAll of strategy 4 threw after strategy 1 had found the
\* privacy policy: parseDataSafety returned null.
C9_Witness ==
    /\ fn = "googlePlay.parseDataSafety"
    /\ SectionThrows(doc)
    /\ Cap(doc, "policy") # NoMatch
    /\ out = NULL

\* The candidates of the page in out, and the review returned for the key of
\* candidate i: reviews come out in the order their keys first appear.
Candidates == ReviewsFound(doc).cands

FirstWithKey(i) == \A h \in 1..(i - 1) : Candidates[h].key # Candidates[i].key

ReturnedFor(i) ==
    Get(out, "data").a[Cardinality({Candidates[h].key : h \in 1..i})]

\* C10: when two candidates of a page have the same identity key, the review
\* returned for the key keeps the earlier candidate's non-empty fields and
\* has the later candidate's value where the earlier one left the field
\* empty.
C10_ComplementaryMerged ==
    (fn = "googlePlay.parseReviews" /\ ~HtmlGuard(doc)) =>
        \A i, j \in 1..Len(Candidates) :
            (i < j /\ FirstWithKey(i) /\ Candidates[j].key = Candidates[i].key) =>
                \A f \in {"reviewId", "text", "score", "date"} :
                    /\ Truthy(Get(Candidates[i].review, f)) =>
                          Get(ReturnedFor(i), f) = Get(Candidates[i].review, f)
                    /\ (/\ ~Truthy(Get(Candidates[i].review, f))
                        /\ Truthy(Get(Candidates[j].review, f))) =>
                          Truthy(Get(ReturnedFor(i), f))

(***************************************************************************)
(* Claims about the Google Play app parser and the review parser           *)
(***************************************************************************)
\* The fields of the app that both the JSON-LD block and the markup carry.
BothSources(html) ==
    {f \in {"title", "icon", "description"} :
        Truthy(Get(AppData(html), f)) /\ Cap(html, f) # NoMatch}

\* C11: when a field of the app is in the JSON-LD block and in the visible
\* markup or meta tags of the page, parseApp of Google Play returns the
\* JSON-LD value for it.
C11_StructuredDataWins ==
    (fn = "googlePlay.parseApp" /\ ~HtmlGuard(doc)) =>
        \A f \in BothSources(doc) :
            out # NULL => Get(out, f) = Get(AppData(doc), f)

\* The data-review-id values of the opening tags of the page's review
\* elements.
BlockAttrs(html) == {Caps(html, "blocks")[i].attr : i \in 1..Len(Caps(html, "blocks"))}

\* A page whose reviews are all in markup elements that carry a
\* data-review-id attribute.
OnlyIdBlocks(html) ==
    /\ ~HtmlGuard(html)
    /\ Caps(html, "ld") = <<>>
    /\ Caps(html, "scripts") = <<>>
    /\ Caps(html, "blocks") # <<>>
    /\ NoMatch \notin BlockAttrs(html)

\* C12: on a page of review elements that each carry a data-review-id
\* attribute, parseReviews returns one review per distinct id, and the
\* reviewId values returned are those ids.
C12_OneReviewPerId ==
    (fn = "googlePlay.parseReviews" /\ OnlyIdBlocks(doc)) =>
        LET data == Get(out, "data").a
        IN /\ Len(data) = Cardinality(BlockAttrs(doc))
           /\ {Get(data[i], "reviewId") : i \in 1..Len(data)}
                 = {Str(a) : a \in BlockAttrs(doc)}
\* The identity key of a candidate as stated: its reviewId, else its text,
\* else the composite of its author and date.
IdentityKey(review) ==
    Or(Or(Get(review, "reviewId"), Get(review, "text")),
       Str(ToStr(Get(review, "userName")) \o "-" \o ToStr(Get(review, "date"))))

\* C13: every strategy of parseReviews decides duplicates by the reviewId,
\* else the text, else the composite of author and date: a candidate is
\* dropped only when an earlier candidate of the page has the same key, so
\* the reviews returned are as many as the distinct keys of the candidates.
C13_OneKeyInEveryStrategy ==
    (fn = "googlePlay.parseReviews" /\ ~HtmlGuard(doc)) =>
        Len(Get(out, "data").a)
            = Cardinality({IdentityKey(Candidates[i].review) :
                              i \in 1..Len(Candidates)})
\* The place of a category name in the lexicographic order.
CodeUnitRank(c) == CHOOSE i \in 1..Len(CodeUnitOrder) : CodeUnitOrder[i] = c

\* C14: the list parseCategories returns for a page is duplicate-free and in
\* ascending lexicographic order, the fallback list of a page without
\* categories included.
C14_CategoriesSorted ==
    (fn = "googlePlay.parseCategories" /\ ~HtmlGuard(doc)) =>
        \A i, j \in 1..Len(out.a) :
            i < j => CodeUnitRank(out.a[i].s) < CodeUnitRank(out.a[j].s)

(***************************************************************************)
(* Claims about the suggestion parsers                                     *)
(***************************************************************************)
\* The priority of a returned suggestion, a missing one counting as 0.
PriorityOrZero(s) ==
    IF Truthy(Get(s, "priority")) THEN Get(s, "priority").n ELSE 0

\* C15: the list either suggestion parser returns is in non-increasing
\* order of priority, a missing priority counting as 0.
C15_SuggestionsByPriority ==
    (fn \in {"appStore.parseSuggest", "googlePlay.parseSuggest"} /\ IsArray(out)) =>
        \A i, j \in 1..Len(out.a) :
            i < j => PriorityOrZero(out.a[i]) >= PriorityOrZero(out.a[j])

\* The list a(2), b(5) came back as b, a.
C15_Witness ==
    /\ fn = "googlePlay.parseSuggest"
    /\ doc = Arr(<<Obj([term |-> Str("a"), priority |-> Num(2)]),
                   Obj([term |-> Str("b"), priority |-> Num(5)])>>)
    /\ out = Arr(<<Obj([term |-> Str("b"), priority |-> Num(5)]),
                   Obj([term |-> Str("a"), priority |-> Num(2)])>>)

\* The embedded JSON of kind k at position i of page d is not JSON.
Malformed(d, k, i) ==
    IF k = "permissionArrays" THEN d.m[k][i].json = BadJson
    ELSE d.m[k][i] = BadJson

\* The kinds of embedded JSON of a page: JSON-LD blocks, script payloads,
\* and the permissions arrays inside scripts.
Embedded(d) ==
    IF "m" \in DOMAIN d
    THEN DOMAIN d.m \cap {"ld", "scripts", "safetyScripts", "permissionArrays"}
    ELSE {}

\* The page d without its malformed fragments.
WithoutMalformed(d) ==
    IF "m" \notin DOMAIN d THEN d
    ELSE [d EXCEPT !.m =
            [k \in DOMAIN d.m |->
                IF k \in Embedded(d)
                THEN LET keep(j) == ~Malformed(d, k, j)
                         n == Cardinality({j \in 1..Len(d.m[k]) : keep(j)})
                         at(i) == CHOOSE j \in 1..Len(d.m[k]) :
                                    /\ keep(j)
                                    /\ Cardinality({h \in 1..j : keep(h)}) = i
                     IN [i \in 1..n |-> d.m[k][at(i)]]
                ELSE d.m[k]]]

\* C17: an HTML-side parser given a page with a malformed JSON fragment does
\* not throw and returns what it returns for the page without the fragment.
C17_MalformedFragmentIgnored ==
    (/\ fn \in HtmlParsers
     /\ \E k \in Embedded(doc) : \E i \in 1..Len(doc.m[k]) : Malformed(doc, k, i))
        => /\ out # THROWN
           /\ out = Result(fn, WithoutMalformed(doc), short)

\* The keys of a returned record.
Keys(r) == DOMAIN r.o

\* C18: the records one Google Play similar, search, list or suggest call
\* returns all have the same keys, whichever strategy or input shape each
\* came from, and every key of a Google Play app record is a key of the App
\* Store app record (developer, category, rating and artwork being its
\* nested objects).
C18_OneKeySetPerEntity ==
    /\ fn \in {"googlePlay.parseSimilar", "googlePlay.parseSearch",
                "googlePlay.parseList", "googlePlay.parseSuggest"}
          => \A r1, r2 \in AppsIn(out) : Keys(r1) = Keys(r2)
    /\ (fn = "googlePlay.parseApp" /\ out.t = "object")
          => Keys(out) \subseteq
                Keys(AppRecord(EmptyObj))
                    \cup {"developer", "category", "rating", "artwork"}

\* A non-empty string in which no pattern of any parser matches.
NothingToFind(d) == IsString(d) /\ d # Str("") /\ "m" \notin DOMAIN d

\* C19: a parser of HTML pages given a non-empty string in which nothing is
\* recognised returns its empty result: null for parseApp and
\* parseDataSafety, an empty list for the list parsers.  (parseSuggest of
\* Google Play reads JSON, in which such a string may hold suggestions.)
C19_NothingFoundGivesEmpty ==
    (fn \in HtmlParsers \ {"googlePlay.parseSuggest"} /\ NothingToFind(doc))
        => out = EmptyOf(fn)

\* A lookup response whose first result has a trackId, a bundleId and a
\* trackName (values `||` keeps: non-zero, non-empty), price 0, and no
\* other field.
FreeNamedApp(d) ==
    /\ d.t = "object"
    /\ IsArray(Get(d, "results"))
    /\ Len(Get(d, "results").a) > 0
    /\ Get(d, "results").a[1].t = "object"
    /\ Keys(Get(d, "results").a[1]) = {"trackId", "bundleId", "trackName", "price"}
    /\ \A k \in {"trackId", "bundleId", "trackName"} :
            Truthy(Get(Get(d, "results").a[1], k))
    /\ Get(Get(d, "results").a[1], "price") = Num(0)

NoReviewContent(d) ==
    /\ ~HtmlGuard(d)
    /\ Caps(d, "ld") = <<>>
    /\ Caps(d, "scripts") = <<>>
    /\ Caps(d, "blocks") = <<>>
    /\ Cap(d, "token") = NoMatch

\* C21: parseReviews of Google Play returns {data: [], nextPaginationToken:
\* null} for a string with no review content and no token, and a token that
\* is not null only when a token pattern matched.
C21_EmptyPageEmptyReviews ==
    fn = "googlePlay.parseReviews" =>
        /\ NoReviewContent(doc) => out = EmptyReviews
        /\ Get(out, "nextPaginationToken") # NULL => Cap(doc, "token") # NoMatch

\* parseReviews returned the empty result for a page (not a bare string)
\* with no review content.
C21_Witness ==
    /\ fn = "googlePlay.parseReviews"
    /\ NoReviewContent(doc)
    /\ "m" \in DOMAIN doc
    /\ out = EmptyReviews

\* The reviews of a review parser's result.
ReviewsIn(v) ==
    IF IsArray(v) THEN {v.a[i] : i \in 1..Len(v.a)}
    ELSE IF v.t = "object" /\ IsArray(Get(v, "data"))
         THEN {Get(v, "data").a[i] : i \in 1..Len(Get(v, "data").a)}
         ELSE {}

\* C22: every review either review parser returns has a score that is an
\* integer from 0 to 5 and a thumbs-up count that is an integer of at least
\* 0, whatever rating and vote values the document holds.
C22_ScoreAndVotesInRange ==
    fn \in {"googlePlay.parseReviews", "appStore.parseReviews"} =>
        \A r \in ReviewsIn(out) :
            /\ Get(r, "score") \in {Num(n) : n \in 0..5}
            /\ Get(r, "thumbsUp").t = "number"
            /\ Get(r, "thumbsUp").n >= 0

\* The permission names of a parsePermissions result: the strings of short
\* mode, the permission fields of full mode.
NamesIn(v) ==
    [i \in 1..Len(v.a) |->
        IF IsString(v.a[i]) THEN v.a[i] ELSE Get(v.a[i], "permission")]

\* C23: every element parsePermissions returns has a name that is a
\* non-empty string, in short and in full mode.
C23_NoEmptyPermissionName ==
    fn = "googlePlay.parsePermissions" =>
        \A i \in 1..Len(out.a) : IsString(NamesIn(out)[i]) /\ NamesIn(out)[i] # Str("")

\* C24: parsePermissions returns only strings in short mode and only
\* objects with the keys permission and type in full mode, and the names of
\* the two modes for one document are the same, in the same order.
C24_ShortAndFullAgree ==
    fn = "googlePlay.parsePermissions" =>
        /\ \A i \in 1..Len(out.a) :
                IF short THEN IsString(out.a[i])
                ELSE out.a[i].t = "object" /\ Keys(out.a[i]) = {"permission", "type"}
        /\ NamesIn(out) = NamesIn(Result(fn, doc, ~short))

\* Short mode returned two names or more for a page where a section item
\* and a script array both gave one.
C24_Witness ==
    /\ fn = "googlePlay.parsePermissions"
    /\ short
    /\ Len(out.a) >= 2
    /\ Caps(doc, "permissionItems") # <<>>
    /\ Caps(doc, "permissionArrays") # <<>>
    /\ \E i \in 1..Len(out.a) : out.a[i] = Str("Storage")

\* C27: when the section markup, the script arrays and the meta tags of a
\* page together give 3 permissions or more, parsePermissions returns
\* exactly those, and nothing from the free-text pattern.
C27_HeuristicOnlyBelowThree ==
    (fn = "googlePlay.parsePermissions" /\ ~HtmlGuard(doc)) =>
        (Len(PermissionsStructured(doc, short).perms) >= 3
            => out = Arr(PermissionsStructured(doc, short).perms))

\* A page with three structured permissions or more and a free-text phrase
\* the pattern matches: the phrase is not in the result.
C27_Witness ==
    /\ fn = "googlePlay.parsePermissions"
    /\ short
    /\ Len(PermissionsStructured(doc, short).perms) >= 3
    /\ Caps(doc, "permissionPhrases") = <<"your contacts", "gps">>
    /\ \A i \in 1..Len(out.a) : out.a[i] # Str("your contacts")

\* The names one permissions array puts forward: its quoted strings of more
\* than 3 characters, then the strings and the named objects of its parsed
\* items, up to the first item that throws.
RECURSIVE ItemNames(_)
ItemNames(items) ==
    IF items = <<>> THEN <<>>
    ELSE IF IsString(Head(items)) THEN <<Head(items).s>> \o ItemNames(Tail(items))
    ELSE IF Truthy(Head(items)) /\ Head(items).t = "object"
         THEN LET name == OrChain(Head(items),
                                  <<"name", "permission", "label", "title">>, UNDEF)
              IN IF ~Truthy(name) THEN ItemNames(Tail(items))
                 ELSE IF IsString(name) THEN <<name.s>> \o ItemNames(Tail(items))
                 ELSE <<>>
    ELSE ItemNames(Tail(items))

RECURSIVE ArrayNames(_)
ArrayNames(as) ==
    IF as = <<>> THEN <<>>
    ELSE SelectSeq(Head(as).quoted, LAMBDA x : Len(Trim(x)) > 3)
         \o (IF IsArray(Head(as).json) THEN ItemNames(Head(as).json.a) ELSE <<>>)
         \o ArrayNames(Tail(as))

\* Every name the strategies of parsePermissions put forward for page d, in
\* the order they do: section items, script arrays, meta tags, and the
\* free-text phrases when the others gave fewer than 3 permissions.
CandidateNames(d, s) ==
    LET items == Caps(d, "permissionItems")
        named == SelectSeq([i \in 1..Len(items) |-> items[i].name],
                      LAMBDA x : x # NoMatch /\ Trim(x) # "")
    IN named
       \o ArrayNames(Caps(d, "permissionArrays"))
       \o SelectSeq(Caps(d, "permissionMeta"), LAMBDA x : Trim(x) # "")
       \o (IF Len(PermissionsStructured(d, s).perms) < HeuristicThreshold
           THEN SelectSeq(Caps(d, "permissionPhrases"),
                     LAMBDA x : Len(Trim(x)) > 5 /\ Len(Trim(x)) < 100)
           ELSE <<>>)

\* C29: no two permissions of one parsePermissions result have names equal
\* but for letter case, and each name returned is, in its spelling, the
\* first of the candidates with that case-folded name.
C29_OnePermissionPerFoldedName ==
    (fn = "googlePlay.parsePermissions" /\ ~HtmlGuard(doc)) =>
        /\ \A i, j \in 1..Len(out.a) :
              i # j => Lower(NamesIn(out)[i].s) # Lower(NamesIn(out)[j].s)
        /\ \A i \in 1..Len(out.a) :
              \E k \in 1..Len(CandidateNames(doc, short)) :
                  /\ CandidateNames(doc, short)[k] = NamesIn(out)[i].s
                  /\ \A h \in 1..(k - 1) :
                        Lower(CandidateNames(doc, short)[h]) # Lower(NamesIn(out)[i].s)
        /\ \A k \in 1..Len(CandidateNames(doc, short)) :
              \E i \in 1..Len(out.a) :
                  Lower(NamesIn(out)[i].s) = Lower(CandidateNames(doc, short)[k])

\* A section item CAMERA and a script array naming Camera: the result has
\* CAMERA and not Camera.
C29_Witness ==
    /\ fn = "googlePlay.parsePermissions"
    /\ ~short
    /\ Len(Caps(doc, "permissionItems")) > 0
    /\ Caps(doc, "permissionItems")[1].name = "CAMERA"
    /\ \E i \in 1..Len(Caps(doc, "permissionArrays")) :
          "Camera" \in {Caps(doc, "permissionArrays")[i].quoted[k] :
                           k \in 1..Len(Caps(doc, "permissionArrays")[i].quoted)}
    /\ \E i \in 1..Len(out.a) : NamesIn(out)[i] = Str("CAMERA")
    /\ \A i \in 1..Len(out.a) : NamesIn(out)[i] # Str("Camera")

(***************************************************************************)
(* Claims about the tool list and the dispatch (Spec)                      *)
(***************************************************************************)
\* C25: the names ListTools returns are the names CallTool has a case for,
\* 20 of them, 10 of the App Store and 10 of Google Play; a request with
\* any other name ends at once in the 'Unknown tool' error, with no fetch
\* attempt, no timer and no parser call.  (A handler is identified by the
\* name of its case: every case calls a handler of its own.)
C25_ListedAreDispatched ==
    /\ ListedTools = DispatchedTools
    /\ Cardinality(ListedTools) = 20
    /\ Cardinality(AppStoreTools) = 10
    /\ Cardinality(GooglePlayTools) = 10
    /\ (tool \notin ListedTools \cup {"none"}) =>
            /\ pc = "done"
            /\ result = UnknownTool
            /\ attempts = 0
            /\ timers = 0
            /\ parserCalls = 0
    /\ (tool \in ListedTools /\ pc = "done") => result # UnknownTool

\* A request named outside the list was answered with 'Unknown tool'.
C25_Witness == tool = "bogus" /\ pc = "done" /\ result = UnknownTool

\* The identifying arguments of a tool, one of which a call must carry;
\* none for list, gp_list and gp_categories.
IdentifyingArgs(t) ==
    CASE t \in {"app", "reviews", "ratings", "similar"} -> {"id", "appId"}
      [] t \in {"search", "suggest", "gp_search", "gp_suggest"} -> {"term"}
      [] t \in {"developer", "gp_developer"} -> {"devId"}
      [] t \in {"privacy", "versionHistory"} -> {"id"}
      [] t \in {"gp_app", "gp_reviews", "gp_similar", "gp_permissions",
                "gp_datasafety"} -> {"appId"}
      [] OTHER -> {}

\* C28: a call of a tool that carries none of the tool's identifying
\* arguments has ended, as soon as it is taken up, in a resolved isError
\* result, with no fetch attempt, no timer and no parser call.
C28_MissingArgumentNoFetch ==
    (/\ tool \in DispatchedTools
     /\ IdentifyingArgs(tool) # {}
     /\ IdentifyingArgs(tool) \cap args = {}) =>
        /\ pc = "done"
        /\ result.state = "resolved"
        /\ result.isError
        /\ attempts = 0
        /\ timers = 0
        /\ fetched = "none"
        /\ parserCalls = 0

\* gp_reviews was called with arguments but no appId and ended in the
\* error of its check.
C28_Witness ==
    /\ tool = "gp_reviews"
    /\ args # NoArgs
    /\ "appId" \notin args
    /\ pc = "done"
    /\ result.isError
    /\ result.from = "validate"

\* C30: the abort timer of an attempt is armed exactly while the attempt is
\* pending: one timer during an attempt, none during a backoff sleep, a
\* body read or after the call, so that never more than one is armed and
\* none is left to fire for an attempt that has settled.
C30_TimerArmedOnlyWhilePending ==
    /\ timers \in {0, 1}
    /\ timers = 1 <=> pc = "attempt"

\* The call sleeps in its second backoff after two settled attempts, with no
\* timer armed.
C30_Witness == pc = "sleep" /\ attempts = 2 /\ timers = 0 /\ outcome.kind = "abort"

(***************************************************************************)
(* Claims about repeated parser calls (SpecRepeat)                         *)
(***************************************************************************)
\* C16: a parser called again on the document of the first call, after
\* whatever other parser calls, returns what the first call returned, and
\* the first call left its input as it was: no dedup set or other state of
\* a call survives it.
C16_SameDocumentSameResult ==
    first # NoCall =>
        /\ first.after = first.d
        /\ (fn = first.f /\ doc = first.d /\ short = first.s) => out = first.r

\* parseReviews was called a third time on the page of its first call, with
\* the set of the call before still holding the page's keys, and returned
\* the page's review again.
C16_Witness ==
    /\ calls = 3
    /\ fn = "googlePlay.parseReviews"
    /\ first.f = fn
    /\ doc = first.d
    /\ left.reviews # {}
    /\ Len(Get(out, "data").a) > 0

(***************************************************************************)
(* Claims about tool calls in flight together (SpecInFlight)               *)
(***************************************************************************)
\* What a call of tool t returns when it runs with nothing else in flight,
\* its fetch attempts settling with the outcomes h in turn (r retries left)
\* and its body read ending in body.
RECURSIVE Alone(_, _, _, _)
Alone(t, h, r, body) ==
    IF h = <<>> THEN NoResult
    ELSE CASE OnSettle(Head(h), r) = "return" ->
                (CASE body[1] = "bodyerr" -> FetchFailed(t, "body").result
                   [] body[1] = "badjson" -> FetchFailed(t, "json").result
                   [] OTHER -> Parsed(t, body[2]).result)
           [] OnSettle(Head(h), r) = "retry" -> Alone(t, Tail(h), NextRetries(r), body)
           [] OTHER -> FetchFailed(t, "fetch").result

\* C26: with calls in flight together and their steps interleaved in any
\* order, the result of each finished call is the result of that call alone
\* with the same fetch outcomes; the abort timers armed are those of the
\* attempts still pending, each armed by its own call, so that no call's
\* settling or timeout touches another call's attempt.
C26_CallsDoNotInterfere ==
    /\ \A c \in Callers :
          inflight.frame[c].pc = "done" =>
              inflight.frame[c].result =
                  Alone(inflight.frame[c].tool, inflight.frame[c].hist, MAX_RETRIES,
                        inflight.frame[c].body)
    /\ inflight.armed =
          {inflight.frame[c].timeoutId : c \in {d \in Callers :
                                                   inflight.frame[d].pc = "attempt"}}
    /\ \A c \in Callers :
          inflight.frame[c].pc = "attempt" => inflight.frame[c].timeoutId[1] = c

\* Call a has ended in an error after four attempts while the second
\* attempt of call b is pending with its timer armed.
C26_Witness ==
    /\ inflight.frame["a"].pc = "done"
    /\ Len(inflight.frame["a"].hist) = 4
    /\ inflight.frame["a"].result.isError
    /\ inflight.frame["b"].pc = "attempt"
    /\ inflight.frame["b"].attempts = 2
    /\ inflight.armed = {<<"b", 2>>}
====
